---- MODULE Spec2Model ----
(***************************************************************************)
(* Role-and-ownership-scoped retrieval of the document chat backend:       *)
(* the access policy table (app/config/access.py), the metadata filters,   *)
(* the access-scoped search, the retrieval retry ladder and the document   *)
(* life cycle (app/services/document_service.py), and the entry points     *)
(* that call them (app/services/llm.py, app/api/V1/documents.py,           *)
(* app/services/rag_service.py).                                           *)
(*                                                                         *)
(* Conventions.  A role name is a sequence of one-character strings, so    *)
(* that lower() and strip() are computed and not assumed.  A metadata      *)
(* value is a Python value (PyStr, PyInt, PyNone): Qdrant's MatchValue is  *)
(* type sensitive, "3" does not match 3.  A similarity is an integer       *)
(* number of hundredths (0.6 is 60).  A handler without a suspension point *)
(* runs as one step of the event loop; the ladder is split into its steps  *)
(* A..F, none of which another handler interleaves with, because           *)
(* rag_search_retry awaits only reprocess_document, which never suspends.  *)
(***************************************************************************)
EXTENDS Integers, Sequences, FiniteSets, TLC

\* ------------------------------------------------------------------------
\* Bounds of the model
\* ------------------------------------------------------------------------

MaxDocs == 2

\* the most copies of one chunk in the collection (a removal that failed
\* leaves the old copy beside the new one)
MaxCopies == 2

Users == {1, 2}

\* The user who chats and searches.  The other user is the other tenant: both
\* upload, re-index and delete, and the model is symmetric in the two ids.
Callers == {1}

\* ------------------------------------------------------------------------
\* Python values and strings
\* ------------------------------------------------------------------------

PyNone == [type |-> "none", str |-> "", int |-> 0]

PyStr(s) == [type |-> "str", str |-> s, int |-> 0]

PyInt(n) == [type |-> "int", str |-> "", int |-> n]

Digits == <<"1", "2", "3", "4", "5", "6", "7", "8", "9">>

\* the decimal digits of a natural number
RECURSIVE DecStr(_)
DecStr(n) == IF n = 0 THEN "0"
             ELSE IF n < 10 THEN Digits[n]
             ELSE DecStr(n \div 10) \o DecStr(n % 10)

\* str(n) of a natural number
str(n) == PyStr(DecStr(n))

Truthy(v) == \/ v.type = "str" /\ v.str # ""
             \/ v.type = "int" /\ v.int # 0

UpperChars == <<"A", "D", "E", "G", "H", "I", "M", "N", "R", "S", "T", "U">>

LowerChars == <<"a", "d", "e", "g", "h", "i", "m", "n", "r", "s", "t", "u">>

Chars == {UpperChars[i] : i \in DOMAIN UpperChars}
            \cup {LowerChars[i] : i \in DOMAIN LowerChars} \cup {" "}

lower_char(c) ==
    IF \E i \in DOMAIN UpperChars : UpperChars[i] = c
    THEN LowerChars[CHOOSE i \in DOMAIN UpperChars : UpperChars[i] = c]
    ELSE c

upper_char(c) ==
    IF \E i \in DOMAIN LowerChars : LowerChars[i] = c
    THEN UpperChars[CHOOSE i \in DOMAIN LowerChars : LowerChars[i] = c]
    ELSE c

\* str.lower()
lower(s) == [i \in 1..Len(s) |-> lower_char(s[i])]

RECURSIVE lstrip(_)
lstrip(s) == IF s # <<>> /\ Head(s) = " " THEN lstrip(Tail(s)) ELSE s

RECURSIVE rstrip(_)
rstrip(s) == IF s # <<>> /\ s[Len(s)] = " " THEN rstrip(SubSeq(s, 1, Len(s) - 1)) ELSE s

\* str.strip()
strip(s) == rstrip(lstrip(s))

\* The absent role name (None); a role name is otherwise a sequence of Chars.
NoName == <<"None">>

\* ------------------------------------------------------------------------
\* Access policy table (app/config/access.py)
\* ------------------------------------------------------------------------

r_admin == <<"a", "d", "m", "i", "n">>

r_hr == <<"h", "r">>

r_it == <<"i", "t">>

r_user == <<"u", "s", "e", "r">>

RoleNames == {r_admin, r_hr, r_it, r_user}

ROLE_ACCESS ==
    [r \in RoleNames |->
        CASE r = r_admin -> <<"invoice", "salary", "purchase_order", "inventory">>
          [] r = r_hr    -> <<"salary", "employee", "invoice">>
          [] r = r_it    -> <<"network", "infra", "purchase_order">>
          [] r = r_user  -> <<"invoice", "shipping_order">>]

Range(s) == {s[i] : i \in DOMAIN s}

ALL_GROUPS == UNION {Range(ROLE_ACCESS[r]) : r \in RoleNames}

groups_for_role_nolower(role_name) ==
    IF role_name = NoName \/ role_name = <<>>
    THEN <<>>
    ELSE IF role_name \in DOMAIN ROLE_ACCESS THEN ROLE_ACCESS[role_name] ELSE <<>>

\* groups_for_role: the list of groups of a role name, [] when there is none
groups_for_role(role_name) ==
    IF role_name = NoName \/ role_name = <<>>
    THEN <<>>
    ELSE IF lower(role_name) \in DOMAIN ROLE_ACCESS
         THEN ROLE_ACCESS[lower(role_name)]
         ELSE <<>>

RECURSIVE SetToSeq(_)
SetToSeq(S) == IF S = {} THEN <<>>
               ELSE LET x == CHOOSE y \in S : TRUE IN <<x>> \o SetToSeq(S \ {x})

\* _collect_roles, for the one way its callers use it (roles = a list): the
\* stripped, lower-cased, non-blank names without duplicates.  The code sorts
\* the list; its order is read by nothing but the union below.
collect_roles(roles) ==
    SetToSeq({lower(strip(roles[i])) :
                i \in {j \in DOMAIN roles : roles[j] # NoName /\ strip(roles[j]) # <<>>}})

\* _access_groups_from_roles: the groups of all the roles of a list
\* (the code returns the sorted list of this set)
access_groups_from_roles(roles) ==
    UNION {Range(groups_for_role(roles[i])) \ {""} :
             i \in {j \in DOMAIN roles : roles[j] # NoName /\ roles[j] # <<>>}}

\* ------------------------------------------------------------------------
\* Chunk metadata and Qdrant filters
\* ------------------------------------------------------------------------

\* FieldCondition keys: "metadata.<field>" is nested, "<field>" is top level
Key(nested, field) == [nested |-> nested, field |-> field]

MatchValue(key, v) == [key |-> key, kind |-> "value", value |-> v, any |-> {}]

MatchAny(key, vs) == [key |-> key, kind |-> "any", value |-> PyNone, any |-> vs]

\* Filter(must=[conditions and nested filters], should=[conditions]); a nested
\* filter is only ever built with should conditions and is kept as their set
Filter(must, must_filters, should) ==
    [must |-> must, must_filters |-> must_filters, should |-> should]

MetaFields == {"user_id", "owner_id", "user", "uid", "group_tag", "group",
               "document_id", "filename", "source"}

\* The payload of a point is {page_content, metadata}: a top-level key other
\* than these two is absent
Payload(p, key) ==
    IF key.nested /\ key.field \in DOMAIN p.metadata
    THEN p.metadata[key.field] ELSE PyNone

MatchCond(p, c) ==
    LET v == Payload(p, c.key)
    IN  /\ v.type # "none"
        /\ IF c.kind = "value" THEN v = c.value ELSE v \in c.any

MatchShould(p, conds) == conds = {} \/ \E c \in conds : MatchCond(p, c)

\* Qdrant: every must holds, and one should holds when there is any
MatchFilter(p, f) ==
    /\ \A c \in f.must : MatchCond(p, c)
    /\ \A sf \in f.must_filters : MatchShould(p, sf)
    /\ MatchShould(p, f.should)

NO_ACCESS == PyStr("__NO_ACCESS__")

\* _strict_access_filter
strict_access_filter(allowed_groups, user_id, use_user_scope) ==
    IF allowed_groups = {}
    THEN Filter({MatchValue(Key(TRUE, "group_tag"), NO_ACCESS)}, {}, {})
    ELSE Filter({MatchAny(Key(TRUE, "group_tag"), {PyStr(g) : g \in allowed_groups})}
                  \cup (IF use_user_scope
                        THEN {MatchValue(Key(TRUE, "user_id"), str(user_id))}
                        ELSE {}),
                {}, {})

\* _as_str_int_variants of an int user id
as_str_int_variants(v) == {PyInt(v), str(v)}

user_fields == {"user_id", "owner_id", "user", "uid"}

build_user_filter_only(user_id, groups) ==
    Filter({}, {},
           {MatchValue(Key(n, uf), v) :
               n \in BOOLEAN, uf \in user_fields, v \in as_str_int_variants(user_id)})

\* _build_user_or_group_filter (groups = None is the empty set)
build_user_or_group_filter(user_id, groups) ==
    LET should ==
            {MatchValue(Key(n, uf), v) :
                n \in BOOLEAN, uf \in user_fields, v \in as_str_int_variants(user_id)}
            \cup {MatchValue(Key(n, k), PyStr(g)) :
                n \in BOOLEAN, k \in {"group_tag", "group"}, g \in groups \ {""}}
    IN  IF should = {}
        THEN Filter({MatchValue(Key(TRUE, "user_id"), NO_ACCESS)}, {}, {})
        ELSE Filter({}, {}, should)

\* _must_document_ids_filter, as the set of its should conditions
must_document_ids_filter(doc_ids) ==
    {MatchValue(Key(n, "document_id"), str(d)) : n \in BOOLEAN, d \in doc_ids}

\* _should_filenames_filter, as the set of its should conditions
should_filenames_filter(filenames) ==
    {MatchValue(Key(n, k), PyStr(f)) :
        n \in BOOLEAN, k \in {"filename", "source"}, f \in filenames \ {""}}

\* ------------------------------------------------------------------------
\* State
\* ------------------------------------------------------------------------

VARIABLES
    documents,            \* the documents table: id -> row
    points,               \* the points of the Qdrant collection "documents"
    pc,                   \* position of the handler in flight: idle, A..F, done
    req,                  \* its arguments
    attempts,             \* rag_search_retry: the attempt log
    kept,                 \* rag_search_retry: the kept results
    candidate_doc_ids,    \* rag_search_retry: documents found by the hint probe
    candidate_filenames,  \* rag_search_retry: their filenames
    response              \* what the last handler returned

vars == <<documents, points, pc, req, attempts, kept,
          candidate_doc_ids, candidate_filenames, response>>

\* ------------------------------------------------------------------------
\* Uploaded files, queries and similarity
\* ------------------------------------------------------------------------

\* A file is its name and its extracted text; a text is the sequence of its
\* chunks.  <<>> is a file no text can be extracted from.
Files ==
    { [filename |-> "invoice_7.pdf", text |-> <<"inv-a", "inv-b">>],
      [filename |-> "notes.pdf",     text |-> <<"notes-a">>],
      [filename |-> "scan.pdf",      text |-> <<>>] }

\* Group tags a client may send with an upload: none, two known groups, and
\* a string that is no known group
GroupTags == {PyNone, PyStr("invoice"), PyStr("salary"), NO_ACCESS}

\* A filename as the sequence of the pieces that ILIKE patterns can tell apart
FileTokens(f) ==
    CASE f = "invoice_7.pdf" -> <<"invoice", "_7", ".", "pdf">>
      [] f = "notes.pdf"     -> <<"notes", ".", "pdf">>
      [] f = "scan.pdf"      -> <<"scan", ".", "pdf">>
      [] OTHER               -> <<>>

\* The queries of the requests.  All contain the word "invoice" and no other
\* hint, so that _extract_doc_hints and the term list of step D give the one
\* term "invoice"; they differ in what they are similar to ("q-other" is
\* similar to nothing).
Queries == {"q-invoice", "q-notes", "q-other"}

QueryTerms(q) == << <<"invoice">> >>

\* The similarity of a chunk to a query, in hundredths (the embedding model)
Sim(q, chunk) ==
    CASE q = "q-invoice" /\ chunk = "inv-a"   -> 80
      [] q = "q-invoice" /\ chunk = "inv-b"   -> 50
      [] q = "q-invoice" /\ chunk = "notes-a" -> 37
      [] q = "q-notes"   /\ chunk = "inv-a"   -> 32
      [] q = "q-notes"   /\ chunk = "inv-b"   -> 20
      [] q = "q-notes"   /\ chunk = "notes-a" -> 50
      [] OTHER -> 0

\* position after the first occurrence of term t in name at or after from, 0 if none
RECURSIVE FindAfter(_, _, _)
FindAfter(name, t, from) ==
    IF from + Len(t) - 1 > Len(name) THEN 0
    ELSE IF SubSeq(name, from, from + Len(t) - 1) = t THEN from + Len(t)
    ELSE FindAfter(name, t, from + 1)

\* name ILIKE "%t1%t2%...%": the terms occur in this order, without overlap
RECURSIVE ilike(_, _, _)
ilike(name, terms, from) ==
    IF terms = <<>> THEN TRUE
    ELSE LET nxt == FindAfter(name, Head(terms), from)
         IN  nxt # 0 /\ ilike(name, Tail(terms), nxt)

\* ------------------------------------------------------------------------
\* Indexing (index_text) and the documents table
\* ------------------------------------------------------------------------

DocIds == 1..MaxDocs

Meta(user_id, document_id, group_tag, source_filename) ==
    [f \in MetaFields |->
        CASE f = "user_id"     -> str(user_id)
          [] f = "document_id" -> str(document_id)
          [] f = "filename"    -> IF source_filename # "" THEN PyStr(source_filename) ELSE PyNone
          [] f = "source"      -> IF source_filename # "" THEN PyStr(source_filename) ELSE PyNone
          [] f = "group_tag"   -> IF Truthy(group_tag) THEN group_tag ELSE PyNone
          [] f = "group"       -> IF Truthy(group_tag) THEN group_tag ELSE PyNone
          [] OTHER             -> PyNone]

\* how many times chunk idx of a document is in the collection already
Copies(pts, document_id, idx) ==
    Cardinality({p \in pts : p.document_id = document_id /\ p.chunk_index = idx})

\* What the vector store does to the calls of one handler: "ok" carries all
\* of them out, "error" fails the adding of chunks, "stale" fails the removal
\* of points, "stale error" fails both
StoreOutcomes == {"ok", "error", "stale", "stale error"}

\* index_text: the points it adds for a text.  When the vector store fails,
\* the function returns chunks_count 0 and an error.
index_text(pts, text, user_id, document_id, group_tag, source_filename, outcome) ==
    IF text = <<>> \/ outcome \in {"error", "stale error"}
    THEN [points |-> pts, chunks_count |-> 0, error |-> TRUE]
    ELSE [points |-> pts \cup
                { [document_id |-> document_id,
                   chunk_index |-> i - 1,
                   copy        |-> Copies(pts, document_id, i - 1) + 1,
                   text        |-> text[i],
                   metadata    |-> Meta(user_id, document_id, group_tag, source_filename)]
                  : i \in DOMAIN text },
          chunks_count |-> Len(text),
          error |-> FALSE]

NoResponse == [op |-> "none"]

\* a handler that is not the ladder returns
Done ==
    /\ pc' = "done"
    /\ req' = [op |-> "none"]
    /\ attempts' = <<>>
    /\ kept' = <<>>
    /\ candidate_doc_ids' = <<>>
    /\ candidate_filenames' = <<>>

\* a handler starts when the event loop runs no other one
Quiescent == pc = "idle"

NextId == IF DOMAIN documents = {} THEN 1
          ELSE 1 + CHOOSE i \in DOMAIN documents : \A j \in DOMAIN documents : j <= i

\* the row that store_and_process_pdf leaves for a file, idx being what
\* index_text returned
uploaded_row(id, file, user_id, group_tag, idx) ==
    LET row == [id |-> id, filename |-> file.filename, user_id |-> user_id,
                group_tag |-> group_tag, extracted_text |-> file.text,
                is_processed |-> FALSE, chunks_count |-> 0,
                processing_status |-> "processing"]
    IN  IF file.text = <<>>
        THEN [row EXCEPT !.processing_status = "empty"]
        ELSE IF idx.error
        THEN [row EXCEPT !.processing_status = "failed"]
        ELSE [row EXCEPT !.chunks_count = idx.chunks_count,
                         !.processing_status = "completed",
                         !.is_processed = TRUE]

\* store_and_process_pdf: the row, the extracted text, the chunks
store_and_process_pdf(file, user_id, group_tag, outcome) ==
    LET id  == NextId
        idx == index_text(points, file.text, user_id, id, group_tag, file.filename, outcome)
    IN  /\ Quiescent
        /\ id <= MaxDocs
        /\ \A p \in idx.points : p.copy <= MaxCopies
        /\ documents' = [d \in DOMAIN documents \cup {id} |->
                            IF d = id THEN uploaded_row(id, file, user_id, group_tag, idx)
                            ELSE documents[d]]
        /\ points' = idx.points
        /\ response' = [op |-> "upload", document_id |-> id]
        /\ Done

\* infer_group of the admin router: the group a filename stands for
infer_group(filename) ==
    LET n == FileTokens(filename)
    IN  IF Len(n) >= 2 /\ SubSeq(n, 1, 2) = <<"invoice", "_">>
        THEN PyStr("invoice") ELSE PyNone

\* POST /admin/upload: the group of the form, else the inferred one, is
\* stored as it is
upload_document ==
    \E file \in Files, u \in Users, group \in GroupTags, outcome \in {"ok", "error"} :
        LET group_tag == IF Truthy(group) THEN group ELSE infer_group(file.filename)
        IN  store_and_process_pdf(file, u, group_tag, outcome)

\* POST /documents/upload: the group is required and validated against
\* ALL_GROUPS; a rejected upload stores nothing
upload_pdf ==
    \E file \in Files, u \in Users, group_tag \in GroupTags \ {PyNone}, outcome \in {"ok", "error"} :
        IF group_tag.str \notin ALL_GROUPS
        THEN /\ Quiescent
             /\ response' = [op |-> "upload_rejected", status |-> 400]
             /\ Done
             /\ UNCHANGED <<documents, points>>
        ELSE store_and_process_pdf(file, u, group_tag, outcome)

\* ------------------------------------------------------------------------
\* The vector store
\* ------------------------------------------------------------------------

\* p is ranked before q: higher similarity first; equal similarities in the
\* order of the points' identity
Before(query, p, q) ==
    \/ Sim(query, p.text) > Sim(query, q.text)
    \/ /\ Sim(query, p.text) = Sim(query, q.text)
       /\ \/ p.document_id < q.document_id
          \/ p.document_id = q.document_id /\ p.chunk_index < q.chunk_index
          \/ p.document_id = q.document_id /\ p.chunk_index = q.chunk_index
               /\ p.copy < q.copy

\* the k best of a set of points, each with its score
RECURSIVE TopK(_, _, _)
TopK(query, S, k) ==
    IF k <= 0 \/ S = {} THEN <<>>
    ELSE LET best == CHOOSE p \in S : \A q \in S \ {p} : Before(query, p, q)
         IN  <<[doc |-> best, score |-> Sim(query, best.text)]>>
                \o TopK(query, S \ {best}, k - 1)

\* The ways the store answers a filtered query: "exact" applies the filter,
\* "loose" returns hits the filter should have excluded (the payload keys of
\* the collection are not the ones the filter names)
IndexModes == {"exact", "loose"}

\* vs.similarity_search_with_score(query, k, filter): the k best hits
similarity_search_with_score(pts, query, k, qfilter, mode) ==
    TopK(query, {p \in pts : mode = "loose" \/ MatchFilter(p, qfilter)}, k)

Max(a, b) == IF a >= b THEN a ELSE b

Min(a, b) == IF a <= b THEN a ELSE b

\* ------------------------------------------------------------------------
\* rag_search_retry._try_search
\* ------------------------------------------------------------------------

\* str(meta.get("user_id", ""))
MetaStr(v) == IF v.type = "str" THEN v.str
              ELSE IF v.type = "int" THEN Digits[v.int] ELSE ""

\* meta.get("group_tag") or meta.get("group")
DocGroup(meta) == IF Truthy(meta["group_tag"]) THEN meta["group_tag"] ELSE meta["group"]

OwnerAccess(meta, user_id) ==
    MetaStr(meta["user_id"]) # "" /\ MetaStr(meta["user_id"]) = str(user_id).str

GroupAccess(meta, group_list) ==
    Truthy(DocGroup(meta)) /\ DocGroup(meta).type = "str"
        /\ DocGroup(meta).str \in group_list

access_ok_any_group(meta, user_id, group_list) ==
    OwnerAccess(meta, user_id) \/ Truthy(DocGroup(meta))

\* the access test of _try_search: owner, or group explicitly allowed
access_ok(meta, user_id, group_list) ==
    OwnerAccess(meta, user_id) \/ GroupAccess(meta, group_list)

\* the loop without the stop at limit: every admissible hit is kept
RECURSIVE keep_loop_no_limit(_, _, _, _, _, _, _)
keep_loop_no_limit(raw, i, acc, user_id, group_list, min_sim, limit) ==
    IF i > Len(raw) THEN acc
    ELSE IF raw[i].score >= min_sim /\ access_ok(raw[i].doc.metadata, user_id, group_list)
    THEN keep_loop_no_limit(raw, i + 1, Append(acc, raw[i]), user_id, group_list, min_sim, limit)
    ELSE keep_loop_no_limit(raw, i + 1, acc, user_id, group_list, min_sim, limit)

\* the loop of _try_search over raw[i..]: skip what is below min_sim or denied,
\* stop as soon as limit hits are kept
RECURSIVE keep_loop(_, _, _, _, _, _, _)
keep_loop(raw, i, acc, user_id, group_list, min_sim, limit) ==
    IF i > Len(raw) THEN acc
    ELSE IF raw[i].score >= min_sim /\ access_ok(raw[i].doc.metadata, user_id, group_list)
    THEN IF Len(acc) + 1 >= limit THEN Append(acc, raw[i])
         ELSE keep_loop(raw, i + 1, Append(acc, raw[i]), user_id, group_list, min_sim, limit)
    ELSE keep_loop(raw, i + 1, acc, user_id, group_list, min_sim, limit)

\* a search step that keeps hits below its floor
try_search_no_floor(pts, tag, qfilter, k, min_sim, mode) ==
    LET raw == similarity_search_with_score(pts, req.query, k, qfilter, mode)
        local_kept == keep_loop(raw, 1, <<>>, req.user_id, req.group_list, 0, req.limit)
    IN  [raw |-> raw, local_kept |-> local_kept,
         attempt |-> [tag |-> tag, raw |-> Len(raw), kept |-> Len(local_kept),
                      k |-> k, min_sim |-> min_sim]]

\* _try_search: the raw hits, the kept hits and the attempt record
try_search(pts, tag, qfilter, k, min_sim, mode) ==
    LET raw == similarity_search_with_score(pts, req.query, k, qfilter, mode)
        local_kept == keep_loop(raw, 1, <<>>, req.user_id, req.group_list,
                                min_sim, req.limit)
    IN  [raw |-> raw, local_kept |-> local_kept,
         attempt |-> [tag |-> tag, raw |-> Len(raw), kept |-> Len(local_kept),
                      k |-> k, min_sim |-> min_sim]]

\* ------------------------------------------------------------------------
\* rag_search_retry, step by step
\* ------------------------------------------------------------------------

\* return {"results": ..., "attempts": attempts, ...}: the locals of the call
\* are gone, the response is what is left of it
Return(results, log, error) ==
    /\ pc' = "done"
    /\ req' = [op |-> "none"]
    /\ attempts' = <<>>
    /\ kept' = <<>>
    /\ candidate_doc_ids' = <<>>
    /\ candidate_filenames' = <<>>
    /\ response' = [op |-> req.op, user_id |-> req.user_id,
                    role_attr |-> req.role_attr, roles |-> req.roles,
                    query |-> req.query, mode |-> req.mode, index |-> req.index,
                    results |-> results, attempts |-> log, error |-> error,
                    granted_groups |-> req.group_list, limit |-> req.limit]

\* the except clause of rag_search_retry: a failed index query ends the call
Raise ==
    /\ Return(<<>>, <<>>, TRUE)
    /\ UNCHANGED <<documents, points>>

SearchStep_no_return(tag, qfilter, k, min_sim, mode, next) ==
    LET t   == try_search(points, tag, qfilter, k, min_sim, mode)
        log == Append(attempts, t.attempt)
        res == IF kept = <<>> /\ t.local_kept # <<>> THEN t.local_kept ELSE kept
    IN  IF next = "done"
        THEN Return(res, log, FALSE)
        ELSE /\ pc' = next
             /\ attempts' = log
             /\ kept' = res
             /\ UNCHANGED <<req, candidate_doc_ids, candidate_filenames, response>>

\* one search step: run _try_search, return if something is kept, else go on
SearchStep(tag, qfilter, k, min_sim, mode, next) ==
    LET t   == try_search(points, tag, qfilter, k, min_sim, mode)
        log == Append(attempts, t.attempt)
        res == IF kept = <<>> /\ t.local_kept # <<>> THEN t.local_kept ELSE kept
    IN  IF res # <<>>
        THEN Return(res, log, FALSE)
        ELSE IF next = "done"
             THEN Return(<<>>, log, FALSE)
             ELSE /\ pc' = next
                  /\ attempts' = log
                  /\ kept' = res
                  /\ UNCHANGED <<req, candidate_doc_ids, candidate_filenames, response>>

secure_filter == build_user_or_group_filter(req.user_id, req.group_list)

\* rag_search_retry up to the first search: the arguments and the group list
\* (index is the collection as the call finds it)
rag_search_retry(op, user_id, role_attr, roles, query, min_similarity, limit, db, mode) ==
    /\ Quiescent
    /\ pc' = "A"
    /\ req' = [op |-> op, user_id |-> user_id, role_attr |-> role_attr,
               roles |-> roles, group_list |-> access_groups_from_roles(roles),
               query |-> query, min_similarity |-> min_similarity,
               limit |-> limit, db |-> db, mode |-> mode, index |-> points]
    /\ attempts' = <<>>
    /\ kept' = <<>>
    /\ candidate_doc_ids' = <<>>
    /\ candidate_filenames' = <<>>
    /\ response' = NoResponse
    /\ UNCHANGED <<documents, points>>

\* A) strict owner-or-group filter
StepA ==
    /\ pc = "A"
    /\ \/ Raise
       \/ /\ SearchStep("A:user+groups", secure_filter,
                        Max(3 * req.limit, req.limit), req.min_similarity,
                        req.mode, "B")
          /\ UNCHANGED <<documents, points>>

\* B) wide recall: same filter, lower threshold
StepB ==
    /\ pc = "B"
    /\ \/ Raise
       \/ /\ SearchStep("B:user+groups wide", secure_filter, 20, 40, req.mode, "C")
          /\ UNCHANGED <<documents, points>>

\* C) user-only fallback
StepC ==
    /\ pc = "C"
    /\ \/ Raise
       \/ /\ SearchStep("C:user only", build_user_or_group_filter(req.user_id, {}),
                        20, 35, req.mode, IF req.db THEN "D" ELSE "done")
          /\ UNCHANGED <<documents, points>>

\* ------------------------------------------------------------------------
\* Documents: lookup, removal of points, re-indexing, deletion
\* ------------------------------------------------------------------------

\* the lookup without the owner condition
get_document_by_id_any_user(docs, document_id, user_id) ==
    {d \in DOMAIN docs : d = document_id}

\* get_document_by_id(db, document_id, user_id=...): the ids that the query finds
get_document_by_id(docs, document_id, user_id) ==
    {d \in DOMAIN docs : d = document_id /\ docs[d].user_id = user_id}

\* remove_document_points: the collection without the points of a document
\* (when the store carries the removal out)
remove_document_points(pts, document_id) ==
    LET flt == Filter({}, {}, {MatchValue(Key(n, "document_id"), str(document_id))
                                  : n \in BOOLEAN})
    IN  {p \in pts : ~MatchFilter(p, flt)}

\* the call of remove_document_points by a handler: its except clause turns
\* a failure of the store into the return value 0, which no caller reads
removed_points(pts, document_id, outcome) ==
    IF outcome \in {"stale", "stale error"} THEN pts
    ELSE remove_document_points(pts, document_id)

\* the row of a document after a re-indexing that gave chunks_count chunks
reprocessed_row(doc, chunks_count) ==
    IF chunks_count > 0
    THEN [doc EXCEPT !.chunks_count = chunks_count,
                     !.processing_status = "completed",
                     !.is_processed = TRUE]
    ELSE [doc EXCEPT !.processing_status = "empty",
                     !.is_processed = FALSE]

\* reprocess_document: the table, the collection and the returned flag
reprocess_document(docs, pts, document_id, user_id, outcome) ==
    IF get_document_by_id(docs, document_id, user_id) = {}
    THEN [documents |-> docs, points |-> pts, ok |-> FALSE]
    ELSE LET doc     == docs[document_id]
             removed == removed_points(pts, document_id, outcome)
             res     == index_text(removed, doc.extracted_text, user_id, document_id,
                                   doc.group_tag, doc.filename, outcome)
         IN  [documents |-> [docs EXCEPT ![document_id] =
                                reprocessed_row(doc, res.chunks_count)],
              points |-> res.points,
              ok |-> res.chunks_count > 0]

\* POST /{document_id}/reprocess by user u, the store behaving as outcome
reprocess_call(outcomes) ==
    \E d \in DocIds, u \in Users, outcome \in outcomes :
        LET r == reprocess_document(documents, points, d, u, outcome)
        IN  /\ Quiescent
            /\ d \in DOMAIN documents
            /\ \A p \in r.points : p.copy <= MaxCopies
            /\ documents' = r.documents
            /\ points' = r.points
            /\ response' = [op |-> "reprocess", document_id |-> d, user_id |-> u,
                            ok |-> r.ok]
            /\ Done

\* the reprocess endpoint over a store whose removals succeed
Reprocess == reprocess_call({"ok", "error"})

\* delete_document (DELETE /{document_id}) by user u, the store behaving as
\* outcome
delete_call(outcomes) ==
    \E d \in DocIds, u \in Users, outcome \in outcomes :
        /\ Quiescent
        /\ d \in DOMAIN documents
        /\ IF get_document_by_id(documents, d, u) = {}
           THEN /\ UNCHANGED <<documents, points>>
                /\ response' = [op |-> "delete", document_id |-> d, user_id |-> u,
                                ok |-> FALSE]
           ELSE /\ points' = removed_points(points, d, outcome)
                /\ documents' = [x \in DOMAIN documents \ {d} |-> documents[x]]
                /\ response' = [op |-> "delete", document_id |-> d, user_id |-> u,
                                ok |-> TRUE]
        /\ Done

\* the delete endpoint over a store whose removals succeed
delete_document == delete_call({"ok"})

\* ------------------------------------------------------------------------
\* rag_search_retry, steps D to F
\* ------------------------------------------------------------------------

PROBE_LIMIT == 10

\* ids of a set of documents, newest first (created_at descending)
RECURSIVE NewestFirst(_)
NewestFirst(S) ==
    IF S = {} THEN <<>>
    ELSE LET m == CHOOSE i \in S : \A j \in S : j <= i
         IN  <<m>> \o NewestFirst(S \ {m})

Take(sq, n) == SubSeq(sq, 1, Min(n, Len(sq)))

probe_rows_any_owner(docs, user_id, terms) ==
    Take(NewestFirst({d \in DOMAIN docs :
                        ilike(FileTokens(docs[d].filename), terms, 1)}),
         PROBE_LIMIT)

\* the rows of the filename probe: the caller's documents whose name matches
probe_rows(docs, user_id, terms) ==
    Take(NewestFirst({d \in DOMAIN docs :
                        /\ ilike(FileTokens(docs[d].filename), terms, 1)
                        /\ docs[d].user_id = user_id}),
         PROBE_LIMIT)

\* the probe without the group test on the rows
probe_candidates_any_group(docs, user_id, group_list, terms) ==
    IF terms = <<>> THEN <<>> ELSE probe_rows(docs, user_id, terms)

\* of these rows, the ungrouped ones and the ones in an allowed group
probe_candidates(docs, user_id, group_list, terms) ==
    IF terms = <<>> THEN <<>>
    ELSE SelectSeq(probe_rows(docs, user_id, terms),
                   LAMBDA d : \/ ~Truthy(docs[d].group_tag)
                              \/ docs[d].group_tag.str \in group_list)

\* the last return of rag_search_retry
Exhausted(log) == Return(<<>>, log, FALSE)

\* D) DB filename probe
StepD ==
    /\ pc = "D"
    /\ LET ids == probe_candidates(documents, req.user_id, req.group_list,
                                   QueryTerms(req.query))
       IN  IF ids # <<>>
           THEN /\ pc' = "E"
                /\ candidate_doc_ids' = ids
                /\ candidate_filenames' = [i \in DOMAIN ids |-> documents[ids[i]].filename]
                /\ UNCHANGED <<req, attempts, kept, response>>
           ELSE Exhausted(attempts)
    /\ UNCHANGED <<documents, points>>

\* E) search constrained to the candidate document ids
StepE ==
    /\ pc = "E"
    /\ \/ Raise
       \/ /\ SearchStep("E:doc_id filter",
                        Filter({}, {must_document_ids_filter(Range(candidate_doc_ids))},
                               secure_filter.should),
                        30, 30, req.mode, "E2")
          /\ UNCHANGED <<documents, points>>

\* E2) search constrained to the candidate filenames
StepE2 ==
    /\ pc = "E2"
    /\ \/ Raise
       \/ /\ SearchStep("E2:filename filter",
                        Filter({}, {should_filenames_filter(Range(candidate_filenames))},
                               secure_filter.should),
                        30, 30, req.mode, "F")
          /\ UNCHANGED <<documents, points>>

\* the loop of step F over candidate_doc_ids[i..]: re-index what the caller owns
RECURSIVE reindex_loop(_, _, _, _, _, _)
reindex_loop(docs, pts, ids, i, outcomes, any) ==
    IF i > Len(ids) THEN [documents |-> docs, points |-> pts, reindexed_any |-> any]
    ELSE IF get_document_by_id(docs, ids[i], req.user_id) # {}
    THEN LET r == reprocess_document(docs, pts, ids[i], req.user_id, outcomes[ids[i]])
         IN  reindex_loop(r.documents, r.points, ids, i + 1, outcomes, any \/ r.ok)
    ELSE reindex_loop(docs, pts, ids, i + 1, outcomes, any)

\* F) re-index the candidates, then search once more
StepF ==
    /\ pc = "F"
    /\ \E outcomes \in [Range(candidate_doc_ids) -> {"ok", "error"}],
          search_fails \in BOOLEAN :
        LET r == reindex_loop(documents, points, candidate_doc_ids, 1, outcomes, FALSE)
            t == try_search(r.points, "F:post-reindex", secure_filter, 30, 30, req.mode)
            log == Append(attempts, t.attempt)
        IN  /\ documents' = r.documents
            /\ points' = r.points
            /\ IF r.reindexed_any /\ ~search_fails
               THEN Return(t.local_kept, log, FALSE)
               ELSE Exhausted(attempts)

\* ------------------------------------------------------------------------
\* Entry points
\* ------------------------------------------------------------------------

\* What users.role holds: no role row, or a role whose name is as the
\* administrator typed it
RoleAttrs == {NoName, <<" ", "U", "s", "e", "r">>}

resolve_roles_default_user(role_attr) ==
    IF role_attr = NoName \/ role_attr = <<>> THEN <<r_user>>
    ELSE <<lower(strip(role_attr))>>

\* _resolve_roles_from_db, given the role of the user row
resolve_roles_from_db(role_attr) ==
    IF role_attr = NoName \/ role_attr = <<>> THEN <<>>
    ELSE <<lower(strip(role_attr))>>

\* llm.get_llm_response (POST /chat/sessions/{id}/messages): resolve the
\* roles, then run the ladder with min_similarity 0.6 and limit 5
Chat ==
    \E u \in Callers, role_attr \in RoleAttrs, q \in Queries, mode \in IndexModes :
        rag_search_retry("chat", u, role_attr, resolve_roles_from_db(role_attr),
                         q, 60, 5, TRUE, mode)

RECURSIVE strict_pass_no_group(_, _, _, _, _, _)
strict_pass_no_group(raw, i, acc, allowed_groups, min_similarity, limit) ==
    IF i > Len(raw) THEN acc
    ELSE IF raw[i].score >= min_similarity
    THEN IF Len(acc) + 1 >= limit THEN Append(acc, raw[i])
         ELSE strict_pass_no_group(raw, i + 1, Append(acc, raw[i]),
                                   allowed_groups, min_similarity, limit)
    ELSE strict_pass_no_group(raw, i + 1, acc, allowed_groups, min_similarity, limit)

\* the strict pass of search_documents_with_access over raw[i..]
RECURSIVE strict_pass(_, _, _, _, _, _)
strict_pass(raw, i, acc, allowed_groups, min_similarity, limit) ==
    IF i > Len(raw) THEN acc
    ELSE LET grp == raw[i].doc.metadata["group_tag"]
         IN  IF grp.type = "str" /\ grp.str \in allowed_groups
                  /\ raw[i].score >= min_similarity
             THEN IF Len(acc) + 1 >= limit THEN Append(acc, raw[i])
                  ELSE strict_pass(raw, i + 1, Append(acc, raw[i]),
                                   allowed_groups, min_similarity, limit)
             ELSE strict_pass(raw, i + 1, acc, allowed_groups, min_similarity, limit)

InSeq(x, sq) == \E i \in DOMAIN sq : sq[i] = x

\* its wide pass
RECURSIVE wide_pass(_, _, _, _, _, _)
wide_pass(raw, i, acc, allowed_groups, wide_min, limit) ==
    IF i > Len(raw) \/ Len(acc) >= limit THEN acc
    ELSE LET grp == raw[i].doc.metadata["group_tag"]
         IN  IF grp.type = "str" /\ grp.str \in allowed_groups
                  /\ raw[i].score >= wide_min /\ ~InSeq(raw[i], acc)
             THEN wide_pass(raw, i + 1, Append(acc, raw[i]), allowed_groups, wide_min, limit)
             ELSE wide_pass(raw, i + 1, acc, allowed_groups, wide_min, limit)

\* the search without the access filter and without the group test
search_kept_unscoped(pts, query, user_id, roles, use_user_scope, limit, min_similarity, mode) ==
    [results |-> strict_pass_no_group(TopK(query, pts, Max(limit * 3, limit)), 1, <<>>,
                                      {}, min_similarity, limit),
     granted_groups |-> {}]

\* search_documents_with_access, its try block: the kept results and the
\* granted groups, over the collection pts
search_kept(pts, query, user_id, roles, use_user_scope, limit, min_similarity, mode) ==
    LET role_list      == collect_roles(roles)
        allowed_groups == access_groups_from_roles(role_list)
        qfilter  == strict_access_filter(allowed_groups, user_id, use_user_scope)
        raw      == similarity_search_with_score(pts, query, Max(limit * 3, limit),
                                                 qfilter, mode)
        strict   == strict_pass(raw, 1, <<>>, allowed_groups, min_similarity, limit)
        raw_wide == similarity_search_with_score(pts, query, Max(20, limit * 4),
                                                 qfilter, mode)
        results  == IF Len(strict) < limit
                    THEN wide_pass(raw_wide, 1, strict, allowed_groups,
                                   Min(40, min_similarity), limit)
                    ELSE strict
    IN  [results |-> results, granted_groups |-> allowed_groups]

\* search_documents_with_access
search_documents_with_access(op, query, user_id, role_attr, roles, use_user_scope, limit, min_similarity, mode, fails) ==
    LET found == search_kept(points, query, user_id, roles, use_user_scope,
                             limit, min_similarity, mode)
    IN  /\ Quiescent
        /\ response' =
              IF fails
              THEN [op |-> op, user_id |-> user_id, role_attr |-> role_attr,
                    roles |-> roles, query |-> query, mode |-> mode, index |-> points,
                    results |-> <<>>, attempts |-> <<>>,
                    error |-> TRUE, granted_groups |-> {}, limit |-> limit]
              ELSE [op |-> op, user_id |-> user_id, role_attr |-> role_attr,
                    roles |-> roles, query |-> query, mode |-> mode, index |-> points,
                    results |-> found.results, attempts |-> <<>>,
                    error |-> FALSE, granted_groups |-> found.granted_groups,
                    limit |-> limit]
        /\ Done
        /\ UNCHANGED <<documents, points>>

Limits == {1, 2}

MinSimilarities == {30, 60}

\* POST /documents/search (search_user_documents)
SearchEndpoint ==
    \E u \in Callers, role_attr \in RoleAttrs, q \in Queries, limit \in Limits,
       min_similarity \in MinSimilarities, mode \in IndexModes, fails \in BOOLEAN :
        LET role_name == IF role_attr = NoName \/ role_attr = <<>>
                         THEN r_user ELSE role_attr
        IN  search_documents_with_access("search", q, u, role_attr, <<role_name>>, FALSE,
                                         limit, min_similarity, mode, fails)

\* rag_service.get_rag_response: the three nearest points of the collection
\* become the context of the prompt.  The function reads no role; role_attr is
\* the role the calling user has.
get_rag_response ==
    \E u \in Callers, role_attr \in RoleAttrs, q \in Queries :
        /\ Quiescent
        /\ response' = [op |-> "rag_service", user_id |-> u, role_attr |-> role_attr,
                        roles |-> <<>>, query |-> q, mode |-> "exact", index |-> points,
                        results |-> TopK(q, points, 3),
                        attempts |-> <<>>, error |-> FALSE, granted_groups |-> {},
                        limit |-> 3]
        /\ Done
        /\ UNCHANGED <<documents, points>>

\* the response is delivered and the event loop is free again
Respond ==
    /\ pc = "done"
    /\ pc' = "idle"
    /\ req' = [op |-> "none"]
    /\ attempts' = <<>>
    /\ kept' = <<>>
    /\ candidate_doc_ids' = <<>>
    /\ candidate_filenames' = <<>>
    /\ response' = NoResponse
    /\ UNCHANGED <<documents, points>>

Init ==
    /\ documents = << >>
    /\ points = {}
    /\ pc = "idle"
    /\ req = [op |-> "none"]
    /\ attempts = <<>>
    /\ kept = <<>>
    /\ candidate_doc_ids = <<>>
    /\ candidate_filenames = <<>>
    /\ response = NoResponse

Next ==
    \/ upload_document
    \/ upload_pdf
    \/ Reprocess
    \/ delete_document
    \/ Chat
    \/ StepA
    \/ StepB
    \/ StepC
    \/ StepD
    \/ StepE
    \/ StepE2
    \/ StepF
    \/ SearchEndpoint
    \/ get_rag_response
    \/ Respond

Spec == Init /\ [][Next]_vars

\* ------------------------------------------------------------------------
\* The answer orchestrator (document_service.get_llm_response), the chat
\* reply (llm.get_llm_response) and the streamed reply (chat.py)
\* ------------------------------------------------------------------------

\* Queries of the three kinds that _detect_question_type tells apart: the
\* queries above ask about a document ("tell me about the invoice ..."),
\* "q-list" asks which documents there are, "q-chat" is small talk
AnswerQueries == Queries \cup {"q-list", "q-chat"}

detect_question_type(query) ==
    CASE query = "q-list" -> "inventory"
      [] query = "q-chat" -> "general"
      [] OTHER            -> "document"

\* An answer text is a sequence of pieces: fixed wording, a list of
\* filenames, the reply of the language model to a prompt, the text of a
\* raised error
Piece(kind, val) == [kind |-> kind, val |-> val]

Fixed(s) == <<Piece("fixed", <<s>>)>>

\* str(e) of the failures that the handlers catch
ErrorStrings == {"connection to server at qdrant:6333 refused",
                 "(psycopg2.OperationalError) server closed the connection"}

\* What can fail during one call of the orchestrator: nothing, the
\* normalisation of the user id or the classification ("classify"), the
\* table query of get_user_documents ("lookup"), the summary of its rows
\* ("summary"), the index query ("search"), the language model ("llm")
Faults == {"none", "classify", "lookup", "summary", "search", "llm"}

INVENTORY_LIMIT == 50

MAX_CONTEXT_LENGTH == 4000

\* the length of a chunk text without its header line (chunk_size is 1200)
ChunkLen(text) ==
    CASE text = "inv-a"   -> 1200
      [] text = "inv-b"   -> 1100
      [] text = "notes-a" -> 900
      [] text = "memo-a"  -> 400
      [] OTHER            -> 0

\* the table query without the owner condition
get_user_documents_any_owner(docs, user_id, include_unprocessed, limit, fault) ==
    IF fault = "lookup" THEN <<>>
    ELSE Take(NewestFirst({d \in DOMAIN docs :
                             include_unprocessed \/ docs[d].is_processed}),
              limit)

\* get_user_documents: the caller's rows, newest first, at most limit; a
\* failed query is caught and gives no row
get_user_documents(docs, user_id, include_unprocessed, limit, fault) ==
    IF fault = "lookup" THEN <<>>
    ELSE Take(NewestFirst({d \in DOMAIN docs :
                             /\ docs[d].user_id = user_id
                             /\ include_unprocessed \/ docs[d].is_processed}),
              limit)

\* get_user_documents_summary: what the inventory reads of each row
get_user_documents_summary(docs, user_id, include_unprocessed, limit, fault) ==
    LET rows == get_user_documents(docs, user_id, include_unprocessed, limit, fault)
    IN  [i \in DOMAIN rows |-> [id |-> rows[i],
                                filename |-> docs[rows[i]].filename,
                                is_processed |-> docs[rows[i]].is_processed]]

\* what the orchestrator returns
Answer(text, response_type, sources, results, error) ==
    [raised |-> FALSE, response |-> text, response_type |-> response_type,
     sources |-> sources, rag_results |-> results, error |-> error]

\* the inventory branch
inventory_answer(docs, user_id, fault) ==
    IF fault = "summary"
    THEN Answer(Fixed("I'm having trouble accessing your document list right now."),
                "inventory", <<>>, <<>>, TRUE)
    ELSE LET summary   == get_user_documents_summary(docs, user_id, FALSE,
                                                     INVENTORY_LIMIT, fault)
             processed == SelectSeq(summary, LAMBDA d : d.is_processed)
             filenames == [i \in DOMAIN processed |-> processed[i].filename]
         IN  Answer(IF summary = <<>>
                    THEN Fixed("You haven't uploaded any documents yet.")
                    ELSE <<Piece("You have N processed documents:", filenames)>>,
                    "inventory",
                    [i \in DOMAIN summary |-> summary[i].filename],
                    <<>>, FALSE)

\* the context loop over results[i..]: chunk texts are added until the
\* next one would exceed the budget
RECURSIVE context_loop(_, _, _, _, _)
context_loop(results, i, context_parts, sources, total_length) ==
    IF i > Len(results) THEN [context_parts |-> context_parts, sources |-> sources]
    ELSE LET chunk_text == results[i].doc.text
             meta       == results[i].doc.metadata
             fn         == IF Truthy(meta["filename"]) THEN meta["filename"]
                           ELSE meta["source"]
         IN  IF total_length + ChunkLen(chunk_text) > MAX_CONTEXT_LENGTH
             THEN [context_parts |-> context_parts, sources |-> sources]
             ELSE context_loop(results, i + 1, Append(context_parts, chunk_text),
                               IF Truthy(fn) THEN sources \cup {fn.str} ELSE sources,
                               total_length + ChunkLen(chunk_text))

\* the answer a with metadata["attempts"] = rag_results.get("attempts", []);
\* search_documents_with_access returns no such key
with_attempts(a, rag_results) ==
    [f \in DOMAIN a \cup {"attempts"} |->
        IF f # "attempts" THEN a[f]
        ELSE IF "attempts" \in DOMAIN rag_results THEN rag_results.attempts ELSE <<>>]

\* the document branch.  The reply of the model is a function of the prompt
\* (query and context); cites: the reply names one of the sources.  The
\* sorted list of sources is modelled up to its order.
document_answer(pts, query, user_id, roles, mode, fault, cites) ==
    LET rag_results == IF fault = "search"
                       THEN [results |-> <<>>, granted_groups |-> {}]
                       ELSE search_kept(pts, query, user_id, roles, FALSE, 5, 60, mode)
        access_denied == FALSE
        ctx          == context_loop(rag_results.results, 1, <<>>, {}, 0)
        sources_list == SetToSeq(ctx.sources)
        reply        == <<Piece(IF cites THEN "llm reply naming a source" ELSE "llm reply",
                                <<query>> \o ctx.context_parts)>>
    IN  IF rag_results.results = <<>>
        THEN IF access_denied
             THEN Answer(Fixed("You don't have access to documents that could answer that question."),
                         "document", <<>>, <<>>, FALSE)
             ELSE with_attempts(
                      Answer(Fixed("I couldn't find relevant information in your accessible documents for that question."),
                             "document", <<>>, <<>>, FALSE),
                      rag_results)
        ELSE IF fault = "llm"
        THEN Answer(Fixed("I encountered an error while searching your documents."),
                    "document", <<>>, <<>>, TRUE)
        ELSE with_attempts(
                 Answer(IF sources_list # <<>> /\ ~cites
                        THEN reply \o <<Piece("Source(s):", sources_list)>>
                        ELSE reply,
                        "document", sources_list, rag_results.results, FALSE),
                 rag_results)

\* the general branch
general_answer(query, fault) ==
    IF fault = "llm"
    THEN Answer(Fixed("I'm having trouble processing your request right now."),
                "general", <<>>, <<>>, TRUE)
    ELSE Answer(<<Piece("llm reply", <<query>>)>>, "general", <<>>, <<>>, FALSE)

\* the branches of the orchestrator, inside its outer try
answer_branches(docs, pts, query, user_id, roles, mode, fault, cites) ==
    CASE detect_question_type(query) = "inventory" ->
             inventory_answer(docs, user_id, fault)
      [] detect_question_type(query) = "document" ->
             document_answer(pts, query, user_id, roles, mode, fault, cites)
      [] OTHER -> general_answer(query, fault)

\* the orchestrator without its outer except clause
get_llm_response_unguarded(docs, pts, query, user_id, roles, mode, fault, cites) ==
    IF fault = "classify"
    THEN [raised |-> TRUE, response |-> <<>>, response_type |-> "none",
          sources |-> <<>>, rag_results |-> <<>>, error |-> TRUE]
    ELSE answer_branches(docs, pts, query, user_id, roles, mode, fault, cites)

\* document_service.get_llm_response: a failure before the branches
\* (_normalize_user_id, _detect_question_type) reaches the outer except
get_llm_response(docs, pts, query, user_id, roles, mode, fault, cites) ==
    IF fault = "classify"
    THEN Answer(Fixed("I encountered an unexpected error."), "error", <<>>, <<>>, TRUE)
    ELSE answer_branches(docs, pts, query, user_id, roles, mode, fault, cites)

\* a call of the orchestrator; only what the branch of the query can meet
\* is drawn
Orchestrate ==
    \E u \in Callers, role_attr \in RoleAttrs, q \in AnswerQueries,
       mode \in IndexModes, fault \in Faults, cites \in BOOLEAN :
        /\ Quiescent
        /\ IF fault = "classify" THEN mode = "exact" /\ ~cites
           ELSE CASE detect_question_type(q) = "inventory" ->
                       fault \in {"none", "lookup", "summary"}
                           /\ mode = "exact" /\ ~cites
                  [] detect_question_type(q) = "document" ->
                       /\ fault \in {"none", "search", "llm"}
                       /\ fault = "search" => mode = "exact"
                       /\ cites => fault = "none" /\ mode = "exact"
                  [] OTHER ->
                       fault \in {"none", "llm"} /\ mode = "exact" /\ ~cites
        /\ response' = [op |-> "answer", user_id |-> u, role_attr |-> role_attr,
                        roles |-> resolve_roles_from_db(role_attr), query |-> q,
                        mode |-> mode, fault |-> fault, cites |-> cites,
                        answer |-> get_llm_response(documents, points, q, u,
                                       resolve_roles_from_db(role_attr),
                                       mode, fault, cites)]
        /\ Done
        /\ UNCHANGED <<documents, points>>

\* What post_session_message hands to llm.get_llm_response: no message, a
\* question, a greeting, or a last message without a "content" key
Histories == {"empty", "question", "hello", "no content"}

\* How the call of rag_search_retry ended for llm.get_llm_response: with
\* chunks, with none, or with an exception
RagOutcomes == {"evidence", "none", "raised"}

Returned(text) == [raised |-> FALSE, text |-> text, error |-> ""]

Raised(e) == [raised |-> TRUE, text |-> <<>>, error |-> e]

\* llm.get_regular_llm_response: its except clause reads
\* conversation_history[-1]["content"]
get_regular_llm_response(history, llm_fails) ==
    IF ~llm_fails THEN Returned(<<Piece("llm reply", <<history>>)>>)
    ELSE IF history = "no content" THEN Raised("'content'")
    ELSE IF history = "hello"
    THEN Returned(Fixed("Hello {current_user}! I'm your AI assistant. How can I help you today?"))
    ELSE Returned(Fixed("I'm having trouble connecting to the AI service right now. Please try again shortly."))

\* llm.get_rag_response for a non-empty evidence list
llm_get_rag_response(history, llm_fails) ==
    IF llm_fails
    THEN Returned(Fixed("I found some related context in your documents, but I ran into an error while generating the answer. Please try again."))
    ELSE Returned(<<Piece("llm reply from evidence", <<history>>)>>)

\* llm.get_llm_response after the ladder: the reply text.  The fallback is
\* called in the inner try and again in the inner except; what it raises
\* there reaches the outer except.
chat_reply(history, rag, llm_fails) ==
    IF history = "empty"
    THEN Fixed("Hello! I'm here to help. What would you like to know?")
    ELSE LET r == IF rag = "evidence" THEN llm_get_rag_response(history, llm_fails)
                  ELSE get_regular_llm_response(history, llm_fails)
         IN  IF r.raised
             THEN <<Piece("fixed", <<"I encountered an error: ">>),
                    Piece("error", <<r.error>>),
                    Piece("fixed", <<". Please check the logs.">>)>>
             ELSE r.text

\* the reply of llm.get_llm_response, returned by post_session_message
ChatReply ==
    \E history \in Histories, rag \in RagOutcomes, llm_fails \in BOOLEAN :
        /\ Quiescent
        /\ response' = [op |-> "reply", history |-> history, rag |-> rag,
                        failed |-> llm_fails \/ rag = "raised",
                        text |-> chat_reply(history, rag, llm_fails)]
        /\ Done
        /\ UNCHANGED <<documents, points>>

\* stream_chat_response: the events of a streamed reply.  A session of
\* another user gives one error event; an exception e anywhere in the
\* generator gives the error event of the except clause.
stream_chat_response(owned, failure) ==
    IF ~owned THEN Fixed("Chat not found")
    ELSE IF failure # "none"
    THEN <<Piece("fixed", <<"Internal server error: ">>), Piece("error", <<failure>>)>>
    ELSE <<Piece("llm reply", <<"stream">>)>>

StreamReply ==
    \E owned \in BOOLEAN, failure \in ErrorStrings \cup {"none"} :
        /\ Quiescent
        /\ owned \/ failure = "none"
        /\ response' = [op |-> "stream", history |-> "question", rag |-> "none",
                        failed |-> failure # "none",
                        text |-> stream_chat_response(owned, failure)]
        /\ Done
        /\ UNCHANGED <<documents, points>>

NextAnswer ==
    \/ upload_document
    \/ upload_pdf
    \/ Reprocess
    \/ delete_document
    \/ Orchestrate
    \/ ChatReply
    \/ StreamReply
    \/ Respond

SpecAnswer == Init /\ [][NextAnswer]_vars

\* ------------------------------------------------------------------------
\* The policy functions on their own: groups_for_role and
\* _access_groups_from_roles applied to role names in every spelling
\* ------------------------------------------------------------------------

\* every way to write name n in upper and lower case
CaseVariants(n) ==
    {[i \in 1..Len(n) |-> IF i \in S THEN upper_char(n[i]) ELSE n[i]] :
        S \in SUBSET (1..Len(n))}

r_guest == <<"g", "u", "e", "s", "t">>

\* the role names handed to groups_for_role: the configured names in every
\* case, no name, the empty name, names that are no role
RoleSpellings ==
    UNION {CaseVariants(n) : n \in RoleNames}
        \cup {NoName, <<>>, r_guest, <<"u", "s", "e">>, <<"h", "r", " ">>}

MaxRoles == 2

RoleListNames == {r_user, <<"H", "R">>, r_it, r_guest, NoName, <<>>}

RoleLists == UNION {[1..n -> RoleListNames] : n \in 0..MaxRoles}

InitPolicy ==
    /\ documents = << >>
    /\ points = {}
    /\ pc = "policy"
    /\ \E r \in RoleSpellings, rs \in RoleLists :
           req = [op |-> "policy", role_name |-> r, roles |-> rs]
    /\ attempts = <<>>
    /\ kept = <<>>
    /\ candidate_doc_ids = <<>>
    /\ candidate_filenames = <<>>
    /\ response = NoResponse

PolicyLookup ==
    /\ pc = "policy"
    /\ pc' = "done"
    /\ response' = [op |-> "policy", role_name |-> req.role_name, roles |-> req.roles,
                    groups |-> groups_for_role(req.role_name),
                    allowed |-> access_groups_from_roles(req.roles)]
    /\ UNCHANGED <<documents, points, req, attempts, kept,
                   candidate_doc_ids, candidate_filenames>>

NextPolicy == PolicyLookup

SpecPolicy == InitPolicy /\ [][NextPolicy]_vars

\* ------------------------------------------------------------------------
\* The inventory of a user with many documents
\* ------------------------------------------------------------------------

\* the most processed documents of one user in a table
MaxInventory == 52

TableFile(i) ==
    IF i % 2 = 0 THEN [filename |-> "invoice_7.pdf", text |-> <<"inv-a", "inv-b">>]
    ELSE [filename |-> "notes.pdf", text |-> <<"notes-a">>]

\* The table after own uploads by user 1 that were processed, followed (when
\* in extra) by a processed upload of user 2, an upload of user 1 whose
\* indexing failed, and an upload of user 1 without extractable text
InventoryTable(own, extra) ==
    LET more  == SetToSeq(extra)
        file(i) == IF i <= own \/ more[i - own] # "empty" THEN TableFile(i)
                   ELSE [filename |-> "scan.pdf", text |-> <<>>]
        owner(i) == IF i > own /\ more[i - own] = "other" THEN 2 ELSE 1
        outcome(i) == IF i > own /\ more[i - own] = "failed" THEN "error" ELSE "ok"
    IN  [i \in 1..(own + Len(more)) |->
            uploaded_row(i, file(i), owner(i), PyStr("invoice"),
                         index_text({}, file(i).text, owner(i), i, PyStr("invoice"),
                                    file(i).filename, outcome(i)))]

\* the chunks of the processed documents of a table
TablePoints(docs) ==
    UNION {index_text({}, docs[d].extracted_text, docs[d].user_id, d, docs[d].group_tag,
                      docs[d].filename, "ok").points
             : d \in {x \in DOMAIN docs : docs[x].is_processed}}

InitInventory ==
    /\ \E own \in 0..MaxInventory, extra \in SUBSET {"other", "failed", "empty"} :
           /\ documents = InventoryTable(own, extra)
           /\ points = TablePoints(InventoryTable(own, extra))
    /\ pc = "inventory"
    /\ \E u \in Users, role_attr \in {NoName, r_admin}, fault \in {"none", "lookup", "summary"} :
           req = [op |-> "inventory", user_id |-> u, role_attr |-> role_attr,
                  fault |-> fault]
    /\ attempts = <<>>
    /\ kept = <<>>
    /\ candidate_doc_ids = <<>>
    /\ candidate_filenames = <<>>
    /\ response = NoResponse

\* the orchestrator answers the inventory query "which documents do I have"
Inventory ==
    /\ pc = "inventory"
    /\ pc' = "done"
    /\ response' = [op |-> "answer", user_id |-> req.user_id, role_attr |-> req.role_attr,
                    roles |-> resolve_roles_from_db(req.role_attr), query |-> "q-list",
                    mode |-> "exact", fault |-> req.fault, cites |-> FALSE,
                    answer |-> get_llm_response(documents, points, "q-list", req.user_id,
                                   resolve_roles_from_db(req.role_attr),
                                   "exact", req.fault, FALSE)]
    /\ UNCHANGED <<documents, points, req, attempts, kept,
                   candidate_doc_ids, candidate_filenames>>

NextInventory == Inventory

SpecInventory == InitInventory /\ [][NextInventory]_vars

\* ------------------------------------------------------------------------
\* A collection written under legacy metadata keys
\* ------------------------------------------------------------------------

group_fields == {"group_tag", "group"}

\* the metadata of a chunk whose owner is written under owner_key only and
\* whose group is written under group_key only
LegacyMeta(user_id, owner_key, document_id, group_tag, group_key, source_filename) ==
    [f \in MetaFields |->
        CASE f = owner_key     -> str(user_id)
          [] f = "document_id" -> str(document_id)
          [] f = "filename"    -> PyStr(source_filename)
          [] f = "source"      -> PyStr(source_filename)
          [] f = group_key     -> IF Truthy(group_tag) THEN group_tag ELSE PyNone
          [] OTHER             -> PyNone]

\* chunk 0 of document 1 (invoice_7.pdf), as an indexer using these keys
\* wrote it
LegacyPoint(c) ==
    [document_id |-> 1, chunk_index |-> 0, copy |-> 1, text |-> "inv-a",
     metadata |-> LegacyMeta(c.owner, c.owner_key, 1, c.group_tag, c.group_key,
                             "invoice_7.pdf")]

\* the same chunk as index_text writes it
CurrentPoint(c) ==
    [document_id |-> 1, chunk_index |-> 0, copy |-> 1, text |-> "inv-a",
     metadata |-> Meta(c.owner, 1, c.group_tag, "invoice_7.pdf")]

InitLegacy ==
    /\ \E owner \in Users, owner_key \in user_fields,
          group_tag \in {PyNone, PyStr("invoice"), PyStr("salary")},
          group_key \in group_fields, u \in Users, role_attr \in RoleAttrs,
          mode \in IndexModes :
           LET c == [owner |-> owner, owner_key |-> owner_key,
                     group_tag |-> group_tag, group_key |-> group_key]
               file == [filename |-> "invoice_7.pdf", text |-> <<"inv-a">>]
           IN  /\ documents = [d \in {1} |->
                       uploaded_row(1, file, owner, group_tag,
                                    [chunks_count |-> 1, error |-> FALSE])]
               /\ points = {LegacyPoint(c)}
               /\ req = [op |-> "legacy", user_id |-> u, role_attr |-> role_attr,
                         roles |-> resolve_roles_from_db(role_attr),
                         group_list |-> access_groups_from_roles(
                                            resolve_roles_from_db(role_attr)),
                         query |-> "q-invoice", min_similarity |-> 60, limit |-> 5,
                         db |-> TRUE, mode |-> mode, index |-> {LegacyPoint(c)},
                         chunk |-> c]
    /\ pc = "legacy"
    /\ attempts = <<>>
    /\ kept = <<>>
    /\ candidate_doc_ids = <<>>
    /\ candidate_filenames = <<>>
    /\ response = NoResponse

\* what search_documents_with_access keeps of a collection for the request
search_of(pts) ==
    search_kept(pts, req.query, req.user_id, req.roles, FALSE,
                req.limit, req.min_similarity, req.mode).results

\* what step A of rag_search_retry keeps of a collection for the request
step_a_of(pts) ==
    try_search(pts, "A:user+groups", secure_filter,
               Max(3 * req.limit, req.limit), req.min_similarity, req.mode).local_kept

\* both searches over the collection
LegacySearch ==
    /\ pc = "legacy"
    /\ pc' = "done"
    /\ response' = [op |-> "legacy", search |-> search_of(points),
                    step_a |-> step_a_of(points)]
    /\ UNCHANGED <<documents, points, req, attempts, kept,
                   candidate_doc_ids, candidate_filenames>>

NextLegacy == LegacySearch

SpecLegacy == InitLegacy /\ [][NextLegacy]_vars

\* ------------------------------------------------------------------------
\* Two calls of reprocess_document for the same document
\* ------------------------------------------------------------------------

\* The calls (from the reprocess endpoint or from step F) and the server
\* processes that run them.  Each process has one event loop;
\* reprocess_document awaits nothing, so calls of one process run one after
\* the other, and calls of different processes share only the table and
\* the collection.
Tasks == {1, 2}

Workers == {1, 2}

\* Document 1 was uploaded and indexed by user 1.  Each call has its caller,
\* its process, and what the vector store does to its removal (an error
\* makes remove_document_points return 0) and to its indexing.
InitReindex ==
    /\ \E file \in Files :
           LET idx == index_text({}, file.text, 1, 1, PyStr("invoice"), file.filename, "ok")
           IN  /\ documents = [d \in {1} |->
                                  uploaded_row(1, file, 1, PyStr("invoice"), idx)]
               /\ points = idx.points
    /\ pc = [t \in Tasks |-> "start"]
    /\ req \in [Tasks -> [user_id : Users, worker : Workers,
                          removal : {"ok", "error"}, outcome : {"ok", "error"},
                          after_other : {FALSE}, chunks_count : {0}]]
    /\ attempts = <<>>
    /\ kept = <<>>
    /\ candidate_doc_ids = <<>>
    /\ candidate_filenames = <<>>
    /\ response = [t \in Tasks |-> NoResponse]

\* a call runs on when its process is in the middle of no other call
CanRun(t) ==
    \A o \in Tasks \ {t} :
        req[o].worker = req[t].worker => pc[o] \in {"start", "done"}

\* reprocess_document up to remove_document_points: the ownership test, then
\* the removal of the old points, whose failure is not reported
ReindexRemove(t) ==
    /\ pc[t] = "start" /\ CanRun(t)
    /\ IF get_document_by_id(documents, 1, req[t].user_id) = {}
       THEN /\ pc' = [pc EXCEPT ![t] = "done"]
            /\ response' = [response EXCEPT ![t] =
                                [op |-> "reprocess", ok |-> FALSE,
                                 count |-> Cardinality({p \in points : p.document_id = 1})]]
            /\ UNCHANGED <<points, req>>
       ELSE /\ pc' = [pc EXCEPT ![t] = "index"]
            /\ points' = removed_points(points, 1, IF req[t].removal = "ok"
                                                   THEN "ok" ELSE "stale")
            /\ req' = [req EXCEPT ![t].after_other =
                                      \A o \in Tasks \ {t} : pc[o] = "done"]
            /\ UNCHANGED response
    /\ UNCHANGED <<documents, attempts, kept, candidate_doc_ids, candidate_filenames>>

\* its call of index_text
ReindexAdd(t) ==
    /\ pc[t] = "index" /\ CanRun(t)
    /\ LET doc == documents[1]
           res == index_text(points, doc.extracted_text, req[t].user_id, 1,
                             doc.group_tag, doc.filename, req[t].outcome)
       IN  /\ points' = res.points
           /\ req' = [req EXCEPT ![t].chunks_count = res.chunks_count]
    /\ pc' = [pc EXCEPT ![t] = "commit"]
    /\ UNCHANGED <<documents, attempts, kept, candidate_doc_ids,
                   candidate_filenames, response>>

\* its update of the row, and its return
ReindexCommit(t) ==
    /\ pc[t] = "commit" /\ CanRun(t)
    /\ documents' = [documents EXCEPT ![1] =
                        reprocessed_row(documents[1], req[t].chunks_count)]
    /\ response' = [response EXCEPT ![t] =
                        [op |-> "reprocess", ok |-> req[t].chunks_count > 0,
                         count |-> Cardinality({p \in points : p.document_id = 1})]]
    /\ pc' = [pc EXCEPT ![t] = "done"]
    /\ UNCHANGED <<points, req, attempts, kept, candidate_doc_ids, candidate_filenames>>

NextReindex ==
    \E t \in Tasks :
        \/ ReindexRemove(t)
        \/ ReindexAdd(t)
        \/ ReindexCommit(t)

SpecReindex == InitReindex /\ [][NextReindex]_vars

\* ------------------------------------------------------------------------
\* rag_search_retry and search_documents_with_access for the limits and
\* similarity floors a caller can pass
\* ------------------------------------------------------------------------

\* Document 1, an invoice of user 1, and a second document, of either user,
\* both indexed; each has one of two groups
InitLadder ==
    /\ \E file \in {f \in Files : f.text # <<>>}, owner \in Users,
          g1 \in {PyStr("invoice"), PyStr("salary")},
          g2 \in {PyStr("invoice"), PyStr("salary")} :
           LET inv  == CHOOSE f \in Files : f.filename = "invoice_7.pdf"
               docs == [d \in {1, 2} |->
                           IF d = 1
                           THEN uploaded_row(1, inv, 1, g1,
                                    index_text({}, inv.text, 1, 1, g1, inv.filename, "ok"))
                           ELSE uploaded_row(2, file, owner, g2,
                                    index_text({}, file.text, owner, 2, g2,
                                               file.filename, "ok"))]
           IN  /\ documents = docs
               /\ points = TablePoints(docs)
    /\ pc = "idle"
    /\ req = [op |-> "none"]
    /\ attempts = <<>>
    /\ kept = <<>>
    /\ candidate_doc_ids = <<>>
    /\ candidate_filenames = <<>>
    /\ response = NoResponse

\* a call of rag_search_retry(query, user_id, roles, db, min_similarity, limit)
LadderCall ==
    \E u \in Callers, role_attr \in RoleAttrs, q \in Queries, mode \in IndexModes,
       min_similarity \in {30, 60}, limit \in {1, 2, 7}, db \in BOOLEAN :
        rag_search_retry("ladder", u, role_attr, resolve_roles_from_db(role_attr),
                         q, min_similarity, limit, db, mode)

NextLadder ==
    \/ LadderCall
    \/ StepA
    \/ StepB
    \/ StepC
    \/ StepD
    \/ StepE
    \/ StepE2
    \/ StepF
    \/ SearchEndpoint
    \/ Respond

SpecLadder == InitLadder /\ [][NextLadder]_vars

\* ------------------------------------------------------------------------
\* The context block of the orchestrator, for every list of retrieved chunks
\* ------------------------------------------------------------------------

\* the length of the separator "\n\n---\n\n" between two context parts
SEPARATOR_LENGTH == 7

\* len("\n\n---\n\n".join(context_parts))
RECURSIVE context_length(_)
context_length(context_parts) ==
    IF context_parts = <<>> THEN 0
    ELSE IF Len(context_parts) = 1 THEN ChunkLen(context_parts[1])
    ELSE ChunkLen(Head(context_parts)) + SEPARATOR_LENGTH
            + context_length(Tail(context_parts))

\* The result lists that search_documents_with_access hands to the context
\* loop: at most 5 chunks (limit=5) of documents of the caller, each the
\* first chunk of its document, in descending similarity
InitContext ==
    /\ \E n \in 0..5 :
         \E texts \in [1..n -> {"inv-a", "inv-b", "notes-a", "memo-a"}] :
           req = [op |-> "context",
                  results |-> [i \in 1..n |->
                      [doc |-> [document_id |-> i, chunk_index |-> 0, copy |-> 1,
                                text |-> texts[i],
                                metadata |-> Meta(1, i, PyStr("invoice"),
                                                  IF texts[i] \in {"inv-a", "inv-b"}
                                                  THEN "invoice_7.pdf" ELSE "notes.pdf")],
                       score |-> 95 - i]]]
    /\ documents = << >>
    /\ points = {}
    /\ pc = "context"
    /\ attempts = <<>>
    /\ kept = <<>>
    /\ candidate_doc_ids = <<>>
    /\ candidate_filenames = <<>>
    /\ response = NoResponse

\* the context loop of the document branch and the join of its parts
BuildContext ==
    /\ pc = "context"
    /\ pc' = "done"
    /\ LET ctx == context_loop(req.results, 1, <<>>, {}, 0)
       IN  response' = [op |-> "context", results |-> req.results,
                        context_parts |-> ctx.context_parts,
                        sources |-> ctx.sources,
                        context_length |-> context_length(ctx.context_parts)]
    /\ UNCHANGED <<documents, points, req, attempts, kept,
                   candidate_doc_ids, candidate_filenames>>

SpecContext == InitContext /\ [][BuildContext]_vars

\* ------------------------------------------------------------------------
\* The life cycle of documents over a vector store that can fail
\* ------------------------------------------------------------------------

\* an upload of a file with the group invoice (POST /documents/upload)
UploadInvoice ==
    \E file \in Files, u \in Users, outcome \in {"ok", "error"} :
        store_and_process_pdf(file, u, PyStr("invoice"), outcome)

\* the reprocess endpoint, whatever the store does to the removal of the
\* old points and to the adding of the new ones
ReprocessAny == reprocess_call(StoreOutcomes)

\* the delete endpoint, whatever the store does to the removal
DeleteAny == delete_call({"ok", "stale"})

NextLifecycle ==
    \/ UploadInvoice
    \/ ReprocessAny
    \/ DeleteAny
    \/ Respond

SpecLifecycle == Init /\ [][NextLifecycle]_vars

\* ------------------------------------------------------------------------
\* What the properties speak of
\* ------------------------------------------------------------------------

\* r is the configured name n, in whatever case
SpellingOf(r, n) ==
    /\ Len(r) = Len(n)
    /\ \A i \in 1..Len(n) : r[i] = n[i] \/ r[i] = upper_char(n[i])

\* the groups the policy table grants to a role name
PolicyGroupsOf(r) ==
    UNION {Range(ROLE_ACCESS[n]) : n \in {m \in RoleNames : SpellingOf(r, m)}}

\* the allowed-group set of a list of role names
RoleListGroups(roles) == UNION {PolicyGroupsOf(strip(roles[i])) : i \in DOMAIN roles}

\* the role of the user row names no role
Unresolved(role_attr) == role_attr = NoName \/ strip(role_attr) = <<>>

Owned(p, u) == p.metadata["user_id"] = str(u)

InGroups(p, G) ==
    p.metadata["group_tag"].type = "str" /\ p.metadata["group_tag"].str \in G

Accessible(p, u, G) == Owned(p, u) \/ InGroups(p, G)

Results == {response.results[i] : i \in DOMAIN response.results}

LadderTags == <<"A:user+groups", "B:user+groups wide", "C:user only",
                "E:doc_id filter", "E2:filename filter", "F:post-reindex">>

Tags(log) == [i \in DOMAIN log |-> log[i].tag]

LadderPrefix(log) == Len(log) <= Len(LadderTags)
                        /\ Tags(log) = SubSeq(LadderTags, 1, Len(log))

\* the caller has a document the hint probe of step D selects
HasCandidate(u, G) ==
    \E d \in DOMAIN documents :
        /\ documents[d].user_id = u
        /\ \E i \in DOMAIN FileTokens(documents[d].filename) :
               FileTokens(documents[d].filename)[i] = "invoice"
        /\ \/ documents[d].group_tag = PyNone
           \/ documents[d].group_tag.str \in G

\* ------------------------------------------------------------------------
\* Properties
\* ------------------------------------------------------------------------

\* C1: every chunk that rag_search_retry returns is owned by the requesting
\* user or carries a group of the allowed-group set of the user's roles,
\* whichever step of the ladder produced it.
C1_LadderResultsAccessible ==
    response.op = "chat" =>
        \A r \in Results :
            Accessible(r.doc, response.user_id, RoleListGroups(response.roles))

\* C1 happens: the ladder returned a chunk of another user through a group,
\* from an index that answered with hits the caller may not see
C1_Witness ==
    /\ response.op = "chat"
    /\ response.mode = "loose"
    /\ \E r \in Results : ~Owned(r.doc, response.user_id)
    /\ \E p \in points :
           ~Accessible(p, response.user_id, RoleListGroups(response.roles))

\* C2: every result of search_documents_with_access, from its strict pass or
\* its wide pass, has a group of the allowed-group set of the caller's roles,
\* also when the index returns hits that the filter should have excluded.
C2_SearchResultsInAllowedGroups ==
    response.op = "search" =>
        \A r \in Results : InGroups(r.doc, RoleListGroups(response.roles))

\* C2 happens: the search returned results although the index ranked a chunk
\* of no allowed group above them
C2_Witness ==
    /\ response.op = "search"
    /\ response.mode = "loose"
    /\ response.results # <<>>
    /\ \E p \in points :
           /\ ~InGroups(p, RoleListGroups(response.roles))
           /\ Sim(response.query, p.text) > response.results[1].score

\* C3: when the caller's roles yield the empty allowed-group set,
\* rag_search_retry returns only chunks that the caller owns.
C3_NoGroupsOnlyOwned ==
    (response.op = "chat" /\ RoleListGroups(<<response.role_attr>>) = {}) =>
        \A r \in Results : Owned(r.doc, response.user_id)

\* C3 happens: a caller without a role got chunks of their own while the
\* index held a grouped chunk of somebody else
C3_Witness ==
    /\ response.op = "chat"
    /\ response.role_attr = NoName
    /\ response.results # <<>>
    /\ \E p \in points :
           ~Owned(p, response.user_id) /\ InGroups(p, ALL_GROUPS)

\* C4: the filter that _strict_access_filter builds for the empty
\* allowed-group set (owner scope disabled) matches no chunk of the index,
\* and search_documents_with_access returns nothing to a caller without
\* allowed groups.
C4_DenyFilterMatchesNothing ==
    /\ \A p \in points, u \in Users :
           ~MatchFilter(p, strict_access_filter({}, u, FALSE))
    /\ (response.op = "search" /\ RoleListGroups(response.roles) = {}) =>
           response.results = <<>>

\* C5: groups_for_role reads the role name without regard to case and gives
\* no group for an empty, missing or unknown name; the allowed-group set of a
\* role list is the union of the sets of its roles.
C5_PolicyLookup ==
    response.op = "policy" =>
        /\ \A n \in RoleNames :
               SpellingOf(response.role_name, n) => response.groups = ROLE_ACCESS[n]
        /\ (\A n \in RoleNames : ~SpellingOf(response.role_name, n)) =>
               response.groups = <<>>
        /\ response.allowed =
               UNION {PolicyGroupsOf(response.roles[i]) : i \in DOMAIN response.roles}

\* C5 happens: a role name in mixed case was looked up, and a list of two
\* roles got the groups of both
C5_Witness ==
    /\ response.op = "policy"
    /\ response.role_name = <<"A", "d", "M", "i", "n">>
    /\ response.groups = ROLE_ACCESS[r_admin]
    /\ response.roles = << <<"H", "R">>, r_it >>
    /\ response.allowed = Range(ROLE_ACCESS[r_hr]) \cup Range(ROLE_ACCESS[r_it])

\* C6: on the chat pipeline and on the search endpoint, a user whose role
\* cannot be resolved is searched with the empty role list and the empty
\* allowed-group set; no default role stands in for the missing one.
C6_NoDefaultRole ==
    (response.op \in {"chat", "search"} /\ Unresolved(response.role_attr)) =>
        response.roles = <<>> /\ response.granted_groups = {}

\* C7: every function that retrieves chunks for the context of the language
\* model hands on only chunks that pass the owner-or-allowed-group check.
C7_EveryContextChecked ==
    response.op \in {"chat", "rag_service"} =>
        \A r \in Results :
            Accessible(r.doc, response.user_id, RoleListGroups(<<response.role_attr>>))

\* C8: the ladder runs its steps in the order A, B, C, D, E/E2, F and returns
\* at the first step that keeps a chunk: while a later step is pending no
\* earlier one has kept anything, and when step A keeps a chunk the returned
\* log has exactly one entry.
C8_OrderAndShortCircuit ==
    LET after == [x \in {"A", "B", "C", "D", "E", "E2", "F"} |->
                     CASE x = "A" -> 0 [] x = "B" -> 1 [] x = "C" -> 2
                       [] x = "D" -> 3 [] x = "E" -> 3 [] x = "E2" -> 4
                       [] x = "F" -> 5]
    IN  /\ pc \in DOMAIN after =>
               /\ Tags(attempts) = SubSeq(LadderTags, 1, after[pc])
               /\ \A i \in DOMAIN attempts : attempts[i].kept = 0
               /\ kept = <<>>
        /\ (response.op = "chat" /\ ~response.error) =>
               LET log == response.attempts
               IN  /\ log # <<>>
                   /\ LadderPrefix(log)
                   /\ \A i \in 1..(Len(log) - 1) : log[i].kept = 0
                   /\ Len(response.results) = log[Len(log)].kept
                   /\ log[1].kept > 0 => Len(log) = 1

\* C8 happens: step A kept a chunk and the call returned with one log entry,
\* although step B would have kept a further chunk
C8_Witness ==
    /\ response.op = "chat"
    /\ Len(response.attempts) = 1
    /\ response.attempts[1].kept > 0
    /\ \E p \in points :
           /\ Accessible(p, response.user_id, RoleListGroups(response.roles))
           /\ Sim(response.query, p.text) >= 40
           /\ \A r \in Results : r.doc # p

\* C9 as stated: when no step of rag_search_retry keeps a chunk (and no index
\* query failed), the returned attempt log has a record for each of the six
\* steps.
C9_AllSixRecorded ==
    (response.op = "chat" /\ ~response.error /\ response.results = <<>>) =>
        Len(response.attempts) = Len(LadderTags)

\* C9 amended: a call that returns no chunk and no error has logged the steps
\* that ran and kept nothing: A, B and C always, E and E2 exactly when the
\* hint probe found a candidate document, F only when a candidate was
\* re-indexed; a call that ends on a failed index query returns no log.
C9_ExhaustedLog ==
    (response.op = "chat" /\ response.results = <<>>) =>
        IF response.error
        THEN response.attempts = <<>>
        ELSE LET log == response.attempts
                 cand == HasCandidate(response.user_id, RoleListGroups(response.roles))
             IN  /\ LadderPrefix(log)
                 /\ \A i \in DOMAIN log : log[i].kept = 0
                 /\ Len(log) \in {3, 5, 6}
                 /\ Len(log) = 3 <=> ~cand
                 /\ Len(log) = 6 =>
                        \E d \in DOMAIN documents :
                            /\ documents[d].user_id = response.user_id
                            /\ documents[d].processing_status = "completed"

\* C9 happens: the ladder went through all its steps, re-indexed a candidate
\* and still kept nothing
C9_Witness ==
    /\ response.op = "chat"
    /\ ~response.error
    /\ response.results = <<>>
    /\ Len(response.attempts) = 6
    /\ points # {}

\* the chunks that a step of the ladder finds for the caller when the index
\* applies the filters: an accessible chunk at the floor of step B, an owned
\* one at the floor of step C, an owned one of a candidate document at the
\* floor of steps E to F
Findable(p, u, G, q) ==
    \/ Accessible(p, u, G) /\ Sim(q, p.text) >= 40
    \/ Owned(p, u) /\ Sim(q, p.text) >= 35
    \/ /\ Owned(p, u) /\ Sim(q, p.text) >= 30
       /\ p.document_id \in DOMAIN documents
       /\ HasCandidate(u, G)
       /\ \E i \in DOMAIN FileTokens(documents[p.document_id].filename) :
              FileTokens(documents[p.document_id].filename)[i] = "invoice"
       /\ \/ documents[p.document_id].group_tag = PyNone
          \/ documents[p.document_id].group_tag.str \in G

C14_StoredGroupsKnown ==
    /\ \A d \in DOMAIN documents :
           \/ documents[d].group_tag = PyNone
           \/ documents[d].group_tag.str \in ALL_GROUPS
    /\ \A p \in points :
           \/ p.metadata["group_tag"] = PyNone
           \/ p.metadata["group_tag"].str \in ALL_GROUPS

\* C16 (as stated): a failed index query in one ladder step does not abort
\* rag_search_retry; the call goes on with the next step, so that step A,
\* whether its query fails or finds nothing, is followed by step B, and
\* step B by step C; only kept chunks end the call earlier.
\* _try_search catches nothing: the failure reaches the except clause of
\* rag_search_retry, which returns no result and an empty log.
C16_FailedStepContinues ==
    [][ /\ pc = "A" => \/ pc' = "B"
                       \/ pc' = "done" /\ response'.results # <<>>
        /\ pc = "B" => \/ pc' = "C"
                       \/ pc' = "done" /\ response'.results # <<>> ]_vars

\* a document whose filename matches the terms of the query
FilenameMatches(d) == ilike(FileTokens(documents[d].filename), QueryTerms(req.query), 1)

\* C20 (as stated): step D selects every filename-matching document that
\* the caller owns or whose group is in the caller's allowed-group set; a
\* matching document the caller owns is a candidate whatever its group.
C20_OwnedOrGroupCandidates ==
    (pc = "E" /\ req.op = "chat") =>
        \A d \in DOMAIN documents :
            (/\ FilenameMatches(d)
             /\ \/ documents[d].user_id = req.user_id
                \/ /\ Truthy(documents[d].group_tag)
                   /\ documents[d].group_tag.str \in req.group_list)
            => d \in Range(candidate_doc_ids)

\* C20: the candidates of step D are exactly the filename-matching documents
\* that the caller owns and that are ungrouped or of an allowed group (of
\* the PROBE_LIMIT newest own matching rows), the newest first; a document
\* of another owner is never a candidate, and neither is an own document of
\* a group the caller's roles do not grant.
C20_OwnedAndPermittedCandidates ==
    (pc = "E" /\ req.op = "chat") =>
        /\ Range(candidate_doc_ids) =
               {d \in DOMAIN documents :
                   /\ FilenameMatches(d)
                   /\ documents[d].user_id = req.user_id
                   /\ \/ ~Truthy(documents[d].group_tag)
                      \/ documents[d].group_tag.str \in req.group_list}
        /\ \A i, j \in DOMAIN candidate_doc_ids :
               i < j => candidate_doc_ids[i] > candidate_doc_ids[j]
        /\ candidate_filenames =
               [i \in DOMAIN candidate_doc_ids |-> documents[candidate_doc_ids[i]].filename]

\* C20 happens: the probe selected one own document and left out another
\* own matching document, of a group the caller is not granted
C20_Witness ==
    /\ pc = "E" /\ req.op = "chat"
    /\ candidate_doc_ids # <<>>
    /\ \E d \in DOMAIN documents :
           /\ FilenameMatches(d)
           /\ documents[d].user_id = req.user_id
           /\ d \notin Range(candidate_doc_ids)

ResponseTypes == {"inventory", "document", "general", "error"}

\* C18: the answer orchestrator returns to its caller for every query and
\* every failure of classification, document lookup, retrieval or the
\* language-model call; what it returns has a response_type among
\* inventory, document, general and error (error for a failure before the
\* branches, else the type of the query), and llm.get_llm_response returns
\* a reply text whatever failed.
C18_OrchestratorNeverRaises ==
    /\ response.op = "answer" =>
           /\ ~response.answer.raised
           /\ response.answer.response_type \in ResponseTypes
           /\ response.answer.response_type =
                  IF response.fault = "classify" THEN "error"
                  ELSE detect_question_type(response.query)
           /\ response.answer.response # <<>>
    /\ response.op = "reply" => response.text # <<>>

\* C18 happens: a call in which something failed has returned
C18_Witness ==
    /\ response.op = "answer"
    /\ response.fault = "classify"
    /\ response.answer.response_type = "error"

\* the text holds the string of a raised error
HasErrorText(text) == \E i \in DOMAIN text : text[i].kind = "error"

\* C17 (as stated): an answer produced after an internal failure is a fixed
\* generic message; the text of the raised error is in no answer text, of
\* the orchestrator, of the chat reply or of the streamed reply.
\* The outer except of llm.get_llm_response and the except of
\* stream_chat_response put str(e) into the text.
C17_NoErrorTextInAnswer ==
    /\ response.op = "answer" => ~HasErrorText(response.answer.response)
    /\ response.op \in {"reply", "stream"} => ~HasErrorText(response.text)

\* the chunks of the collection that a user with the groups G may not read
Inaccessible(pts, u, G) == {p \in pts : ~Accessible(p, u, G)}

\* what the user sees of an answer
Visible(a) == <<a.response, a.response_type, a.sources>>

\* C11: for a document-type query the orchestrator's response (text,
\* response_type, sources) is the same on every collection that differs
\* from the present one only in chunks the caller may not access: taking
\* any set of such chunks away, all of them included, changes nothing, so
\* content that is only access-denied answers as absent content does.
C11_NonRevealing ==
    (response.op = "answer" /\ detect_question_type(response.query) = "document") =>
        \A S \in SUBSET Inaccessible(points, response.user_id, RoleListGroups(response.roles)) :
            Visible(get_llm_response(documents, points \ S, response.query,
                                     response.user_id, response.roles, response.mode,
                                     response.fault, response.cites))
                = Visible(response.answer)

\* C11 happens: the only chunk close to the query is one the caller may not
\* access, and the answer is the one for absent content
C11_Witness ==
    /\ response.op = "answer"
    /\ detect_question_type(response.query) = "document"
    /\ response.fault = "none"
    /\ \E p \in points :
           /\ ~Accessible(p, response.user_id, RoleListGroups(response.roles))
           /\ Sim(response.query, p.text) >= 60
    /\ response.answer = get_llm_response(documents, {}, response.query,
                                          response.user_id, response.roles,
                                          response.mode, response.fault, response.cites)

\* the caller's processed documents, newest first
OwnProcessed(u) ==
    NewestFirst({d \in DOMAIN documents :
                    documents[d].user_id = u /\ documents[d].is_processed})

\* the filenames that an inventory answer lists
Listed(a) == IF a.response[1].kind = "fixed" THEN <<>> ELSE a.response[1].val

\* C15 (as stated): the inventory answer lists exactly the filenames of the
\* caller's processed documents, all of them.
C15_ListsAllOwnProcessed ==
    (response.op = "answer" /\ response.query = "q-list" /\ response.fault = "none") =>
        /\ Len(Listed(response.answer)) = Len(OwnProcessed(response.user_id))
        /\ \A i \in DOMAIN Listed(response.answer) :
               Listed(response.answer)[i] =
                   documents[OwnProcessed(response.user_id)[i]].filename

\* C15: the inventory answer lists the filenames of the caller's own
\* processed documents, newest first, up to the INVENTORY_LIMIT newest ones:
\* every listed name is, position by position, the name of a processed
\* document of the caller, none of another user's documents and none of the
\* caller's unprocessed or failed ones is listed whatever the caller's role,
\* and nothing is listed when the lookup failed.
C15_ListsNewestOwnProcessed ==
    (response.op = "answer" /\ response.query = "q-list") =>
        LET own    == OwnProcessed(response.user_id)
            listed == Listed(response.answer)
        IN  /\ response.answer.response_type = "inventory"
            /\ Len(listed) = IF response.fault = "none"
                             THEN Min(Len(own), INVENTORY_LIMIT) ELSE 0
            /\ \A i \in DOMAIN listed : listed[i] = documents[own[i]].filename
            /\ response.answer.sources = listed

\* C15 happens: the caller has more processed documents than the limit,
\* there are a document of another user and a failed one, and the answer
\* lists INVENTORY_LIMIT names
C15_Witness ==
    /\ response.op = "answer" /\ response.query = "q-list"
    /\ Len(OwnProcessed(response.user_id)) > INVENTORY_LIMIT
    /\ \E d \in DOMAIN documents : documents[d].user_id # response.user_id
    /\ \E d \in DOMAIN documents :
           documents[d].user_id = response.user_id /\ ~documents[d].is_processed
    /\ Len(Listed(response.answer)) = INVENTORY_LIMIT

\* C19 (as stated): a chunk whose owner or group is written only under a
\* legacy key is kept by search_documents_with_access, and by a step of
\* rag_search_retry, exactly when the same chunk written under the current
\* keys is kept (filter sent to the index and local check together).
\* _strict_access_filter and the local check of the search name only
\* group_tag, and _try_search reads the owner only from user_id.
C19_LegacyKeysTreatedAlike ==
    response.op = "legacy" =>
        /\ (response.search # <<>>) <=> (search_of({CurrentPoint(req.chunk)}) # <<>>)
        /\ (response.step_a # <<>>) <=> (step_a_of({CurrentPoint(req.chunk)}) # <<>>)

\* C12 (as stated): of two calls of reprocess_document on the same
\* document, one after the other, both returning true, the second leaves
\* as many chunks of the document in the index as the first.
\* A removal that fails is not reported by remove_document_points, and
\* the call goes on to add the chunks again.
C12_SameCountTwice ==
    \A a, b \in Tasks :
        (/\ pc[a] = "done" /\ pc[b] = "done"
         /\ req[b].after_other
         /\ response[a].ok /\ response[b].ok)
        => response[b].count = response[a].count

\* C13 (as stated): two calls that re-index the same document never have
\* their delete-points and add-chunks phases interleaved, and after both
\* have completed successfully the index holds exactly the chunks of one
\* re-indexing.  Nothing serializes the calls of two processes, and a
\* failed removal leaves the old chunks beside the new ones.
C13_ReindexSerialized ==
    /\ \A a, b \in Tasks :
           a # b => ~(pc[a] \in {"index", "commit"} /\ pc[b] \in {"index", "commit"})
    /\ (\A t \in Tasks : pc[t] = "done" /\ response[t].ok) =>
           Cardinality({p \in points : p.document_id = 1})
               = Len(documents[1].extracted_text)

\* the chunks of a document in a collection
ChunksOf(pts, d) == {p \in pts : p.document_id = d}

\* C30: reprocess_document and delete_document called by a user who does not
\* own the document return false and change neither the documents table
\* (the row and its status fields) nor the index.
C30_NonOwnerChangesNothing ==
    [][ (/\ pc = "idle"
         /\ response'.op \in {"reprocess", "delete"}
         /\ documents[response'.document_id].user_id # response'.user_id)
        => /\ ~response'.ok
           /\ documents' = documents
           /\ points' = points ]_vars

\* C30 happens: a user asked to delete a document of another user that has
\* chunks in the index; the call returned false and the document is there
C30_Witness ==
    /\ response.op = "delete"
    /\ ~response.ok
    /\ response.document_id \in DOMAIN documents
    /\ documents[response.document_id].user_id # response.user_id
    /\ documents[response.document_id].processing_status = "completed"
    /\ ChunksOf(points, response.document_id) # {}

\* C24 (as stated): after delete_document returns true for a document, the
\* index holds no chunk of that document.
\* remove_document_points reports a failed removal to nobody: the row is
\* deleted, true is returned and the chunks stay searchable.
C24_DeletedDocumentHasNoChunks ==
    (response.op = "delete" /\ response.ok) =>
        ChunksOf(points, response.document_id) = {}

ProcessingStatuses == {"pending", "processing", "completed", "failed", "empty"}

\* C29 (as stated): after any sequence of uploads and re-indexings every
\* document has is_processed exactly when its processing_status is
\* completed, a processing_status of the five known ones, and, when
\* completed, a chunks_count that is the number of its chunks in the index
\* and at least 1.
\* A re-indexing whose removal failed adds the chunks a second time (C12).
C29_StatusFieldsConsistent ==
    \A d \in DOMAIN documents :
        /\ documents[d].is_processed <=> documents[d].processing_status = "completed"
        /\ documents[d].processing_status \in ProcessingStatuses
        /\ documents[d].processing_status = "completed" =>
               /\ documents[d].chunks_count = Cardinality(ChunksOf(points, d))
               /\ documents[d].chunks_count >= 1

\* C28 (as stated): a re-indexing that fails leaves the chunks that were
\* indexed for the document in the index and leaves a completed document
\* completed: over every step that keeps a completed document, its chunks
\* stay and so does its status (a re-indexing that succeeds puts the same
\* chunks back), so that step F never leaves a searchable document without
\* chunks.
\* reprocess_document removes the points before it indexes, and sets the
\* status to empty when index_text gave no chunk.
C28_FailedReindexKeepsChunks ==
    [][ \A d \in DOMAIN documents \cap DOMAIN documents' :
            documents[d].processing_status = "completed" =>
                /\ ChunksOf(points, d) \subseteq points'
                /\ documents'[d].processing_status = "completed" ]_vars

\* C26 (as stated): for a query classified as document the orchestrator
\* gets its chunks from a run of the retrieval retry ladder, and the
\* diagnostics of its response carry the attempt log of that run, which
\* has at least one record and begins with step A.
\* The document branch calls search_documents_with_access, which runs no
\* ladder and returns no attempt log.
C26_AnswerCarriesLadderLog ==
    (/\ response.op = "answer"
     /\ detect_question_type(response.query) = "document"
     /\ response.fault = "none")
    => /\ "attempts" \in DOMAIN response.answer
       /\ response.answer.attempts # <<>>
       /\ LadderPrefix(response.answer.attempts)

\* C23 (as stated): the context block that the orchestrator sends to the
\* language model has at most max_context_length characters, whatever the
\* list of retrieved chunks; its parts are the chunks of a prefix of the
\* result list, each whole.
\* The budget test adds up the lengths of the chunk texts only; the join
\* puts a separator between every two parts.
C23_ContextWithinBudget ==
    response.op = "context" =>
        /\ response.context_length <= MAX_CONTEXT_LENGTH
        /\ Len(response.context_parts) <= Len(response.results)
        /\ \A i \in DOMAIN response.context_parts :
               response.context_parts[i] = response.results[i].doc.text

\* C22 (as stated): for every limit and min_similarity that a caller passes,
\* the ladder never tightens recall from one search step to the next: step
\* B asks for at least as many candidates as step A with a floor that is no
\* higher, and the floor of each later search step is no higher than the
\* floor of the step before it.
\* Step B has the fixed count 20 and the fixed floor 0.4, whatever step A
\* was called with.
C22_RecallNeverTightens ==
    (response.op = "ladder" /\ ~response.error) =>
        LET log == response.attempts
        IN  /\ Len(log) >= 2 => /\ log[2].k >= log[1].k
                                /\ log[2].min_sim <= log[1].min_sim
            /\ \A i \in 1..(Len(log) - 1) : log[i + 1].min_sim <= log[i].min_sim

\* C21 (as stated): step F re-indexes only hinted documents that the caller
\* owns, runs only after every earlier step kept nothing, and is followed
\* by one further search, which repeats the strict step: the filter, the
\* similarity floor and the candidate count of step A.
\* The search after the re-indexing has the fixed floor 0.3 and the fixed
\* count 30.
C21_StepFRepeatsStrict ==
    [][ pc = "F" =>
          /\ \A d \in DOMAIN documents :
                 (documents'[d] # documents[d] \/ ChunksOf(points', d) # ChunksOf(points, d))
                 => /\ d \in {candidate_doc_ids[i] : i \in DOMAIN candidate_doc_ids}
                    /\ documents[d].user_id = req.user_id
          /\ kept = <<>>
          /\ \A i \in DOMAIN attempts : attempts[i].kept = 0
          /\ Len(response'.attempts) <= Len(attempts) + 1
          /\ Len(response'.attempts) = Len(attempts) + 1 =>
                 LET f == response'.attempts[Len(attempts) + 1]
                 IN  /\ f.tag = "F:post-reindex"
                     /\ f.min_sim = attempts[1].min_sim
                     /\ f.k = attempts[1].k ]_vars

\* the filter of the ladder step with the tag, for the user u with the
\* groups G and the candidate documents cand
FilterOfStep(tag, u, G, cand) ==
    CASE tag = "C:user only" -> build_user_or_group_filter(u, {})
      [] tag = "E:doc_id filter" ->
             Filter({}, {must_document_ids_filter({cand[i] : i \in DOMAIN cand})},
                    build_user_or_group_filter(u, G).should)
      [] tag = "E2:filename filter" ->
             Filter({}, {should_filenames_filter({documents[cand[i]].filename : i \in DOMAIN cand})},
                    build_user_or_group_filter(u, G).should)
      [] OTHER -> build_user_or_group_filter(u, G)

\* the chunks that the step of the attempt record a keeps of the present
\* index for the call that the response r answers
KeptOfAttempt(r, a) ==
    LET cand == probe_candidates(documents, r.user_id, r.granted_groups, QueryTerms(r.query))
        raw  == similarity_search_with_score(points, r.query, a.k,
                    FilterOfStep(a.tag, r.user_id, r.granted_groups, cand), r.mode)
    IN  keep_loop(raw, 1, <<>>, r.user_id, r.granted_groups, a.min_sim, r.limit)

\* C27: a non-empty result list of rag_search_retry is exactly what the last
\* recorded attempt kept; every earlier attempt kept nothing, so results of
\* two steps are never merged; every attempt record has
\* kept <= raw <= k and kept <= limit.
C27_ResultsOfLastAttemptOnly ==
    (response.op = "ladder" /\ ~response.error) =>
        LET log == response.attempts
        IN  /\ \A i \in DOMAIN log :
                   /\ log[i].kept <= log[i].raw
                   /\ log[i].raw <= log[i].k
                   /\ log[i].kept <= response.limit
            /\ response.results # <<>> =>
                   /\ log # <<>>
                   /\ \A i \in 1..(Len(log) - 1) : log[i].kept = 0
                   /\ Len(response.results) = log[Len(log)].kept
                   /\ response.results = KeptOfAttempt(response, log[Len(log)])

\* C27 happens: step A kept nothing, step B kept as many chunks as the limit
\* allows out of more candidates, one of them a chunk that step A had
\* ranked and dropped
C27_Witness ==
    /\ response.op = "ladder" /\ ~response.error
    /\ Len(response.attempts) = 2
    /\ response.attempts[1].raw = response.attempts[1].k
    /\ response.attempts[2].kept = response.limit
    /\ response.attempts[2].raw > response.limit
    /\ Len(response.results) = response.limit

\* C25: rag_search_retry and search_documents_with_access return at most
\* limit results, however many hits the index has; this holds after the
\* wide pass of search_documents_with_access has added to the results of
\* the strict pass, and no result is there twice.
C25_AtMostLimitResults ==
    response.op \in {"ladder", "search"} =>
        /\ Len(response.results) <= response.limit
        /\ \A i, j \in DOMAIN response.results :
               i # j => response.results[i].doc # response.results[j].doc

\* C25 happens: the strict pass kept fewer chunks than the limit, the wide
\* pass saw them again and added a chunk below the floor of the strict
\* pass, and the index held more chunks of the caller's groups than the
\* limit
C25_Witness ==
    /\ response.op = "search" /\ ~response.error
    /\ Len(response.results) = response.limit
    /\ response.limit = 2
    /\ response.results[1].score >= 60
    /\ response.results[2].score < 60
    /\ Cardinality({p \in points : InGroups(p, response.granted_groups)}) > response.limit

============================================================================
